---- MODULE Spec2Model ----
(***************************************************************************)
(* Model of the on-demand web content retrieval engine of                  *)
(* school-agent-simple: ScrapingCache, DynamicWebScraper.find_relevant_urls*)
(* / scrape_for_query / format_for_context (backend/dynamic_scraper.py)    *)
(* and their callers.                                                      *)
(*                                                                         *)
(* Specifications:                                                         *)
(*   SpecCache  one caller at a time using a ScrapingCache (get, set,      *)
(*              clear_old) while the clock advances;                       *)
(*   SpecConc   several threads running the cache calls of                 *)
(*              get_dynamic_content_for_query / get_context_for_any_website*)
(*              statement by statement on the shared, unlocked dictionary; *)
(*   Spec       one scrape_for_query call: the discovery loop of           *)
(*              find_relevant_urls, then the worker-pool fetch pass;       *)
(*   SpecDiscover  find_relevant_urls alone, on larger sites;              *)
(*   SpecFormat format_for_context applied to a ranked page list;          *)
(*   SpecFormatTwice  format_for_context called repeatedly on one list;    *)
(*   SpecCrawlers  one crawl by find_relevant_urls or by                   *)
(*              EverestWebsiteScraper.scrape_website                       *)
(*              (backend/website_scraper.py); SpecCrawlersFair the same    *)
(*              with the loops running on;                                 *)
(*   SpecStatus find_relevant_urls on a server that also answers with      *)
(*              error statuses;                                            *)
(*   SpecScore  _build_full_text and _calculate_relevance on a page that   *)
(*              query words are added to;                                  *)
(*   SpecQuery  get_dynamic_content_for_query, one caller at a time;       *)
(*   SpecExtract  the element removal and extract_structured_content of    *)
(*              scrape_url_with_context;                                   *)
(*   SpecPage   one page from the relevance test of find_relevant_urls to  *)
(*              the record scrape_for_query returns;                       *)
(*   SpecContext  get_context_for_any_website                              *)
(*              (backend/general_web_assistant.py), one caller at a time;  *)
(*   SpecHost   _is_valid_url on pairs of hosts;                           *)
(*   SpecSite   WebsiteCache (backend/website_cache.py) called by several  *)
(*              threads.                                                   *)
(***************************************************************************)
EXTENDS Integers, Sequences, FiniteSets, TLC

VARIABLES
    \* ---- ScrapingCache (shared by SpecCache and SpecConc)
    cache,      \* self.cache: key -> [present, data, ts]
    ttl,        \* self.ttl
    now,        \* time.time()
    lastSet,    \* history: per key, the last set(key, v): [done, data, at, swept, prev]
    got,        \* history: the last get and what the last set of its key was
    \* ---- threads of SpecConc
    thr,
    \* ---- one scrape_for_query call (Spec)
    site,           \* the family the crawled site is drawn from
    phase,          \* "discover" (find_relevant_urls), "found", "pool", "done"
    max_depth,      \* find_relevant_urls(query, max_depth)
    max_pages,      \* scrape_for_query(query, max_pages), Unread before line 296
    to_visit,       \* the frontier: sequence of [url, depth]
    visited,        \* set of URLs
    relevant_urls,  \* sequence of URLs
    started,        \* number of pool tasks a worker has picked up
    running,        \* URLs whose scrape_url_with_context is in flight
    scraped_data,   \* records [url, score] in completion order
    result,         \* the list scrape_for_query returns (scraped_data, sorted)
    failed,         \* history: URLs whose discovery fetch raised
    dropped,        \* history: URLs whose scrape_url_with_context returned None
    deepest,        \* history: the greatest depth of an entry fetched so far
    pairs,          \* history: pairs of links one page exposed together
    prio,           \* history: priority links of the page processed last
    fetches,        \* history: url -> number of fetches the discovery loop issued
    error_links,    \* history: URLs queued from the body of an error response
    \* ---- one format_for_context call (SpecFormat)
    fmt_pc,         \* "next" (line 321), "links" (line 353), "end" (returned)
    data,           \* URL of the record the loop is at, NoPage outside a record
    seen_urls,      \* set of URLs
    link_urls_seen, \* set of URLs
    relevant_links, \* sequence of URLs
    fmt_links,      \* number of links of the record read so far
    cited,          \* the citation lines of context_parts: [kind, url]
    fmt_in,         \* history: URLs of the records of scraped_data read so far
    \* ---- format_for_context called twice on one list (SpecFormatTwice)
    fmt_arg,        \* the scraped_data argument: records [url, links]
    fmt_out,        \* the citation lines each completed call returned
    \* ---- _calculate_relevance (SpecScore)
    content,        \* the structured content: [headings, paragraphs, lists, steps]
    query,          \* the query string, as its whitespace-separated words
    score,          \* what _calculate_relevance returned for content and query
    adds,           \* history: occurrences of a query term added to the page
    \* ---- one get_dynamic_content_for_query call (SpecQuery)
    call,
    \* ---- scrape_url_with_context on one document (SpecExtract)
    soup,           \* the parsed document: nodes [tag, parent, long]
    structured,     \* the record's headings and paragraphs
    ex_pc,          \* "parsed", "stripped", "extracted"
    \* ---- EverestWebsiteScraper.scrape_website (SpecCrawlers)
    urls_to_visit,  \* sequence of URLs
    visited_urls,   \* self.visited_urls
    site_data,      \* self.scraped_data: URLs of the pages kept
    site_pc,        \* "loop", "done"
    site_max,       \* max_pages
    site_fetches,   \* history: url -> number of extract_page_content calls
    \* ---- one page from discovery to the result list (SpecPage)
    pg,             \* [pc, relevant, returned]
    \* ---- one get_context_for_any_website call (SpecContext)
    ctx,
    \* ---- the politeness delay of the crawls (Spec, SpecCrawlers)
    pace,           \* history: [last, skipped]
    \* ---- one _is_valid_url call (SpecHost)
    hv,             \* [base, link, done, valid]
    \* ---- WebsiteCache and the threads calling it (SpecSite)
    wc

cacheVars == <<cache, ttl, now, lastSet, got>>
crawlVars == <<site, phase, max_depth, max_pages, to_visit, visited,
               relevant_urls, started, running, scraped_data, result,
               failed, dropped, deepest, pairs, prio, fetches, error_links>>
fmtVars == <<fmt_pc, data, seen_urls, link_urls_seen, relevant_links, fmt_links,
             cited, fmt_in>>
twiceVars == <<fmt_arg, fmt_out>>
scoreVars == <<content, query, score, adds>>
domVars == <<soup, structured, ex_pc>>
siteVars == <<urls_to_visit, visited_urls, site_data, site_pc, site_max, site_fetches>>
quietVars == <<pg, ctx, hv, wc>>
lateVars == <<quietVars, pace>>
restVars == <<twiceVars, scoreVars, call, domVars, siteVars, lateVars>>
vars == <<cacheVars, thr, crawlVars, fmtVars, restVars>>

(***************************************************************************)
(* Bounds of the cache model.                                              *)
(***************************************************************************)
MaxTtl == 2
MaxTime == 3

Keys == {"k1", "k2"}
\* page lists stored in the cache; <<>> is the empty page list
DataValues == {<<>>, <<"p1">>}
NoData == <<>>

TtlValues == 0..MaxTtl

AbsentEntry == [present |-> FALSE, data |-> NoData, ts |-> 0]
\* lastSet[k]: done = set(k, .) was called; data, at = its value and time;
\* swept = clear_old has run since; prev = what the key held before that set
NeverSet == [done |-> FALSE, data |-> NoData, at |-> 0, swept |-> FALSE,
             prev |-> "absent"]
\* got: hit, data = the result of the last get(key) (hit = FALSE is None);
\* e = time elapsed since the last set of that key; known, expect, swept, prev =
\* lastSet[key] at the moment of the get
NoGet == [done |-> FALSE, hit |-> FALSE, data |-> NoData,
          e |-> 0, known |-> FALSE, expect |-> NoData, swept |-> FALSE,
          prev |-> "absent"]

(***************************************************************************)
(* ScrapingCache                                                           *)
(***************************************************************************)
\* get's freshness test, line 386: time.time() - timestamp < self.ttl
IsFresh(ts, t, ttlv) == t - ts < ttlv

IsOldInclusive(ts, t, ttlv) == t - ts >= ttlv
\* clear_old's test, line 399: current_time - timestamp > self.ttl
IsOld(ts, t, ttlv) == t - ts > ttlv

\* get(key): the value returned (hit = FALSE stands for None)
GetResult(c, k, t, ttlv) ==
    IF c[k].present /\ IsFresh(c[k].ts, t, ttlv)
    THEN [hit |-> TRUE, data |-> c[k].data]
    ELSE [hit |-> FALSE, data |-> NoData]

\* get(key): the dictionary afterwards (an expired entry is deleted)
GetCache(c, k, t, ttlv) ==
    IF c[k].present /\ ~IsFresh(c[k].ts, t, ttlv)
    THEN [c EXCEPT ![k] = AbsentEntry]
    ELSE c

SetCacheKeepTs(c, k, v, t) ==
    [c EXCEPT ![k] = [present |-> TRUE, data |-> v,
                      ts |-> IF c[k].present THEN c[k].ts ELSE t]]

\* set(key, data): self.cache[key] = (data, time.time())
SetCache(c, k, v, t) ==
    [c EXCEPT ![k] = [present |-> TRUE, data |-> v, ts |-> t]]

\* clear_old(): every entry with current_time - timestamp > ttl is deleted
ClearOldCache(c, t, ttlv) ==
    [k \in Keys |->
        IF c[k].present /\ IsOld(c[k].ts, t, ttlv) THEN AbsentEntry ELSE c[k]]

\* no crawl is in progress
NoCrawl ==
    /\ site = "small" /\ phase = "done" /\ max_depth = 0 /\ max_pages = 0
    /\ to_visit = <<>> /\ visited = {} /\ relevant_urls = <<>>
    /\ started = 0 /\ running = {} /\ scraped_data = <<>> /\ result = <<>>
    /\ failed = {} /\ dropped = {} /\ deepest = 0 /\ pairs = {} /\ prio = <<>>
    /\ fetches = <<>> /\ error_links = {}

\* no format_for_context call is in progress
NoPage == -1
NoFormat ==
    /\ fmt_pc = "end" /\ data = NoPage /\ seen_urls = {} /\ link_urls_seen = {}
    /\ relevant_links = <<>> /\ fmt_links = 0 /\ cited = <<>> /\ fmt_in = <<>>

\* no second format_for_context call is made
NoTwice == fmt_arg = <<>> /\ fmt_out = <<>>

\* nothing is being scored
NoContent == [headings |-> <<>>, paragraphs |-> <<>>, lists |-> <<>>, steps |-> <<>>]
NoScore == content = NoContent /\ query = <<>> /\ score = 0 /\ adds = 0

\* no get_dynamic_content_for_query call is in progress
IdleCall ==
    [pc |-> "idle", key |-> "none", cached_data |-> [hit |-> FALSE, data |-> NoData],
     scraped_data |-> <<>>, out |-> <<>>, crawled |-> FALSE, n |-> 0]
NoCall == call = IdleCall

\* no document is being extracted
NoExtract ==
    /\ soup = <<>> /\ ex_pc = "extracted"
    /\ structured = [headings |-> <<>>, paragraphs |-> <<>>]

\* no scrape_website call is in progress
NoSite ==
    /\ urls_to_visit = <<>> /\ visited_urls = {} /\ site_data = <<>>
    /\ site_pc = "done" /\ site_max = 0 /\ site_fetches = <<>>

\* no page is on its way through one crawl
IdlePage == [pc |-> "idle", relevant |-> FALSE, returned |-> FALSE]
\* no get_context_for_any_website call is in progress
IdleContext ==
    [pc |-> "idle", key |-> "none", specific |-> FALSE,
     cached_data |-> [hit |-> FALSE, data |-> NoData], scraped_data |-> <<>>,
     handed |-> <<>>, formatted |-> FALSE, crawled |-> FALSE, n |-> 0]
\* pace: last = what the crawl did last, "fetch" (a page fetch was issued) or
\* "sleep" (time.sleep(0.1) returned); skipped = a fetch was issued with no
\* delay since the fetch before it
NoPace == [last |-> "none", skipped |-> FALSE]
\* no _is_valid_url call is made
NoHost == [base |-> <<>>, link |-> <<>>, done |-> FALSE, valid |-> FALSE]
\* no WebsiteCache is in use
NoWebsiteCache == "none"
NoLate ==
    /\ pg = IdlePage /\ ctx = IdleContext /\ pace = NoPace
    /\ hv = NoHost /\ wc = NoWebsiteCache

NoRest == NoTwice /\ NoScore /\ NoCall /\ NoExtract /\ NoSite /\ NoLate

CacheInit ==
    /\ cache = [k \in Keys |-> AbsentEntry]
    /\ ttl \in TtlValues
    /\ now = 0
    /\ lastSet = [k \in Keys |-> NeverSet]
    /\ got = NoGet

Tick ==
    /\ now < MaxTime
    /\ now' = now + 1
    /\ UNCHANGED <<cache, ttl, lastSet, got, thr, crawlVars, fmtVars, restVars>>

Get(k) ==
    /\ LET r == GetResult(cache, k, now, ttl) IN
         got' = [done |-> TRUE, hit |-> r.hit, data |-> r.data,
                 e |-> now - lastSet[k].at, known |-> lastSet[k].done,
                 expect |-> lastSet[k].data, swept |-> lastSet[k].swept,
                 prev |-> lastSet[k].prev]
    /\ cache' = GetCache(cache, k, now, ttl)
    /\ UNCHANGED <<ttl, now, lastSet, thr, crawlVars, fmtVars, restVars>>

Set(k, v) ==
    /\ cache' = SetCache(cache, k, v, now)
    /\ lastSet' = [lastSet EXCEPT ![k] =
                      [done |-> TRUE, data |-> v, at |-> now, swept |-> FALSE,
                       prev |-> IF ~cache[k].present THEN "absent"
                                ELSE IF IsFresh(cache[k].ts, now, ttl) THEN "fresh"
                                ELSE "expired"]]
    /\ UNCHANGED <<ttl, now, got, thr, crawlVars, fmtVars, restVars>>

ClearOld ==
    /\ cache' = ClearOldCache(cache, now, ttl)
    /\ lastSet' = [k \in Keys |-> [lastSet[k] EXCEPT !.swept = lastSet[k].done]]
    /\ UNCHANGED <<ttl, now, got, thr, crawlVars, fmtVars, restVars>>

CacheNext ==
    \/ Tick
    \/ \E k \in Keys : Get(k)
    \/ \E k \in Keys, v \in DataValues : Set(k, v)
    \/ ClearOld

SeqInit == CacheInit /\ thr = <<>> /\ NoCrawl /\ NoFormat /\ NoRest

SpecCache == SeqInit /\ [][CacheNext]_vars

(***************************************************************************)
(* C1: for every TTL t and elapsed time e since the last set(key, v),      *)
(* get(key) returns None if and only if e > t (at e = t the value is still *)
(* returned), whether or not clear_old has run in between.                 *)
(* The statement as claimed; get's test is e < t, so it fails at e = t.    *)
(***************************************************************************)
C1_AbsentIffOlderThanTtl ==
    (got.done /\ got.known) => (~got.hit <=> got.e > ttl)

(***************************************************************************)
(* C2: from any cache state (key absent, fresh or expired), set(key, v)    *)
(* followed by get(key) before the TTL elapses (e < ttl), with no other    *)
(* set of that key in between, returns exactly v, the empty page list      *)
(* included; and set replaces the entry wholesale (value and timestamp).   *)
(***************************************************************************)
C2_SetThenGetReturnsValue ==
    /\ (got.done /\ got.known /\ got.e < ttl) =>
            (got.hit /\ got.data = got.expect)
    /\ \A k \in Keys :
            cache[k].present =>
                /\ lastSet[k].done
                /\ cache[k].data = lastSet[k].data
                /\ cache[k].ts = lastSet[k].at

\* a get before the TTL elapsed returned the empty page list that was set over
\* an expired entry, after a sweep
C2_Witness ==
    /\ got.done /\ got.known /\ got.e < ttl /\ got.e > 0
    /\ got.hit /\ got.data = <<>> /\ got.expect = <<>>
    /\ got.prev = "expired" /\ got.swept

(***************************************************************************)
(* C12: clear_old removes every entry whose age exceeds the TTL and leaves *)
(* every other entry (key, value and stored timestamp) unchanged; after it *)
(* returns no entry older than the TTL remains in the cache.               *)
(***************************************************************************)
C12_ClearOldRemovesExactlyTheOld ==
    [][ClearOld =>
          \A k \in Keys :
             /\ (cache[k].present /\ now - cache[k].ts > ttl)
                    => ~cache'[k].present
             /\ ~(cache[k].present /\ now - cache[k].ts > ttl)
                    => cache'[k] = cache[k]
             /\ cache'[k].present => now - cache'[k].ts <= ttl]_vars

\* no get has been called (only clear_old deletes): after a sweep the entry of
\* one key is gone and the entry of another key, of age ttl, is still there
C12_Witness ==
    /\ ~got.done /\ ttl > 0
    /\ \E k1 \in Keys, k2 \in Keys :
          /\ lastSet[k1].done /\ lastSet[k1].swept /\ ~cache[k1].present
          /\ lastSet[k2].done /\ lastSet[k2].swept /\ cache[k2].present
          /\ now - cache[k2].ts = ttl

(***************************************************************************)
(* SpecConc: threads calling get_dynamic_content_for_query ("dyn") or      *)
(* get_context_for_any_website ("any") on the module-level scraping_cache. *)
(* ScrapingCache takes no lock, so each statement of get, set and          *)
(* clear_old is a step of its own and the steps of different threads       *)
(* interleave.  err records the exception a cache statement raised.        *)
(***************************************************************************)
Threads == {"t1", "t2"}
\* the function each thread serves requests with
Caller == [t \in Threads |-> IF t = "t1" THEN "dyn" ELSE "any"]

\* the dictionary is scanned in a fixed key order
KeyOrder == <<"k1", "k2">>

DictSize(c) == Cardinality({k \in Keys : c[k].present})

\* a thread between two calls; the locals of a call are dropped when it returns
IdleThread == [pc |-> "idle", key |-> "k1", data |-> NoData,
               ts |-> 0, cur |-> 0, pos |-> 0, size0 |-> 0, todel |-> <<>>,
               err |-> "none"]

ConcInit ==
    /\ CacheInit
    /\ NoCrawl
    /\ NoFormat
    /\ NoRest
    /\ thr = [t \in Threads |-> IdleThread]

\* cache_key = f"{base_url}:{query}"; cached_data = scraping_cache.get(cache_key)
Call(t) ==
    /\ thr[t].pc = "idle"
    /\ \E k \in Keys :
          thr' = [thr EXCEPT ![t] = [IdleThread EXCEPT !.pc = "get_in", !.key = k]]
    /\ UNCHANGED <<cacheVars, crawlVars, fmtVars, restVars>>

\* line 384: if key in self.cache
GetIn(t) ==
    /\ thr[t].pc = "get_in"
    /\ thr' = [thr EXCEPT ![t].pc =
                  IF cache[thr[t].key].present THEN "get_read" ELSE "miss"]
    /\ UNCHANGED <<cacheVars, crawlVars, fmtVars, restVars>>

\* line 385: data, timestamp = self.cache[key]   (KeyError if the key is gone)
GetRead(t) ==
    /\ thr[t].pc = "get_read"
    /\ LET e == cache[thr[t].key] IN
         thr' = IF e.present
                THEN [thr EXCEPT ![t].pc = "get_cmp", ![t].data = e.data,
                                 ![t].ts = e.ts]
                ELSE [thr EXCEPT ![t].pc = "error", ![t].err = "KeyError"]
    /\ UNCHANGED <<cacheVars, crawlVars, fmtVars, restVars>>

\* lines 386-388: a fresh entry is returned; the callers test `if cached_data:`,
\* so an empty list continues as a miss
GetCmp(t) ==
    /\ thr[t].pc = "get_cmp"
    /\ thr' = IF ~IsFresh(thr[t].ts, now, ttl)
              THEN [thr EXCEPT ![t].pc = "get_del", ![t].data = NoData, ![t].ts = 0]
              ELSE IF thr[t].data # <<>>
              THEN [thr EXCEPT ![t] = IdleThread]
              ELSE [thr EXCEPT ![t].pc = "miss", ![t].data = NoData, ![t].ts = 0]
    /\ UNCHANGED <<cacheVars, crawlVars, fmtVars, restVars>>

\* line 389: del self.cache[key]   (KeyError if the key is gone), then None
GetDel(t) ==
    /\ thr[t].pc = "get_del"
    /\ IF cache[thr[t].key].present
       THEN /\ thr' = [thr EXCEPT ![t].pc = "miss"]
            /\ cache' = [cache EXCEPT ![thr[t].key] = AbsentEntry]
       ELSE /\ thr' = [thr EXCEPT ![t].pc = "error", ![t].err = "KeyError"]
            /\ cache' = cache
    /\ UNCHANGED <<ttl, now, lastSet, got, crawlVars, fmtVars, restVars>>

\* dynamic_scraper.py 421-425, general_web_assistant.py 119-136: the crawl's
\* result is stored; only get_dynamic_content_for_query goes on to clear_old
MissSet(t) ==
    /\ thr[t].pc = "miss"
    /\ \E v \in DataValues : cache' = SetCache(cache, thr[t].key, v, now)
    /\ thr' = IF Caller[t] = "dyn"
              THEN [thr EXCEPT ![t].pc = "co_time"]
              ELSE [thr EXCEPT ![t] = IdleThread]
    /\ UNCHANGED <<ttl, now, lastSet, got, crawlVars, fmtVars, restVars>>

\* line 396: current_time = time.time()
CoTime(t) ==
    /\ thr[t].pc = "co_time"
    /\ thr' = [thr EXCEPT ![t].pc = "co_items", ![t].cur = now]
    /\ UNCHANGED <<cacheVars, crawlVars, fmtVars, restVars>>

\* line 398: the iterator over self.cache.items() is created
CoItems(t) ==
    /\ thr[t].pc = "co_items"
    /\ thr' = [thr EXCEPT ![t].pc = "co_iter", ![t].pos = 1,
                          ![t].size0 = DictSize(cache), ![t].todel = <<>>]
    /\ UNCHANGED <<cacheVars, crawlVars, fmtVars, restVars>>

\* lines 397-400: one step of the scan; the iterator raises RuntimeError
\* (dictionary changed size during iteration) when the size differs from the
\* size at its creation
CoIter(t) ==
    /\ thr[t].pc = "co_iter"
    /\ LET i == thr[t].pos IN
         thr' = IF DictSize(cache) # thr[t].size0
                THEN [thr EXCEPT ![t].pc = "error", ![t].err = "RuntimeError"]
                ELSE IF i > Len(KeyOrder)
                THEN [thr EXCEPT ![t].pc = "co_del", ![t].pos = 0, ![t].size0 = 0,
                                 ![t].cur = 0]
                ELSE LET e == cache[KeyOrder[i]] IN
                     [thr EXCEPT ![t].pos = i + 1,
                                 ![t].todel =
                                    IF e.present /\ IsOld(e.ts, thr[t].cur, ttl)
                                    THEN Append(@, KeyOrder[i]) ELSE @]
    /\ UNCHANGED <<cacheVars, crawlVars, fmtVars, restVars>>

\* lines 401-402: for key in to_delete: del self.cache[key]
CoDel(t) ==
    /\ thr[t].pc = "co_del"
    /\ IF thr[t].todel = <<>>
       THEN /\ thr' = [thr EXCEPT ![t] = IdleThread]
            /\ cache' = cache
       ELSE LET k == Head(thr[t].todel) IN
            IF cache[k].present
            THEN /\ thr' = [thr EXCEPT ![t].todel = Tail(@)]
                 /\ cache' = [cache EXCEPT ![k] = AbsentEntry]
            ELSE /\ thr' = [thr EXCEPT ![t].pc = "error", ![t].err = "KeyError"]
                 /\ cache' = cache
    /\ UNCHANGED <<ttl, now, lastSet, got, crawlVars, fmtVars, restVars>>

ConcNext ==
    \/ Tick
    \/ \E t \in Threads :
          \/ Call(t)
          \/ GetIn(t)
          \/ GetRead(t)
          \/ GetCmp(t)
          \/ GetDel(t)
          \/ MissSet(t)
          \/ CoTime(t)
          \/ CoItems(t)
          \/ CoIter(t)
          \/ CoDel(t)

SpecConc == ConcInit /\ [][ConcNext]_vars

(***************************************************************************)
(* C3: under every interleaving of concurrent callers of                   *)
(* get_dynamic_content_for_query / get_context_for_any_website no cache    *)
(* operation reaches an error state (a delete of a key another thread      *)
(* already removed, or the dictionary changing size while clear_old scans  *)
(* it).  The statement as claimed; the cache takes no lock.                *)
(***************************************************************************)
C3_NoCacheOperationFails ==
    \A t \in Threads : thr[t].err = "none"

\* the two error states of the claim, each reachable
C3_KeyErrorReached == \E t \in Threads : thr[t].err = "KeyError"
C3_RuntimeErrorReached == \E t \in Threads : thr[t].err = "RuntimeError"

(***************************************************************************)
(* DynamicWebScraper.find_relevant_urls and scrape_for_query               *)
(*                                                                         *)
(* URLs are numbers, 0 is self.base_url.  What a fetch returns is chosen   *)
(* when the fetch is made: an exception, or a page with its text matching  *)
(* the query or not and a list of same-domain links [url, m], m telling    *)
(* whether the link's text or href contains a query word (line 271).       *)
(* Four families of sites are crawled:                                     *)
(*   "small"  up to NumUrls pages, any fetch may fail, any page may match, *)
(*            each page exposes any list of up to MaxLinks links;          *)
(*   "large"  the same with up to NumUrlsLarge pages and MaxLinksLarge     *)
(*            links a page (find_relevant_urls alone, SpecDiscover);       *)
(*   "tiny"   the same with up to NumUrlsTiny pages and MaxLinksTiny links *)
(*            a page (the crawls whose termination is checked);            *)
(*   "star"   the base page links to StarWidth pages that all load and     *)
(*            all match the query, so that the cap of 10 relevant URLs     *)
(*            (line 246) is reached.                                       *)
(***************************************************************************)
NumUrls == 3
MaxLinks == 2
NumUrlsLarge == 4
MaxLinksLarge == 3
NumUrlsTiny == 2
MaxLinksTiny == 2
StarWidth == 11
MaxDepthArg == 2
MaxPagesArg == 4
MaxScore == 1

\* line 246: len(relevant_urls) < 10
MaxRelevant == 10
\* line 293: ThreadPoolExecutor(max_workers=3)
MaxWorkers == 3

BaseUrl == 0
Unread == "unread"
Scores == 0..MaxScore

Max2(a, b) == IF a >= b THEN a ELSE b
Min2(a, b) == IF a <= b THEN a ELSE b

SeqRange(q) == {q[i] : i \in 1..Len(q)}
QueuedUrls(q) == {q[i].url : i \in 1..Len(q)}

\* URLs are numbered in the order in which the crawl first meets them: the
\* highest number met so far
HighestMet == 
    LET met == {BaseUrl} \cup visited \cup QueuedUrls(to_visit)
    IN  CHOOSE m \in met : \A x \in met : x <= m

\* the link lists of up to n links a page of a site of nu pages can expose
\* when k is the highest URL met: a link leads to the next new URL, to a URL
\* met before and not yet visited, or back to the base page (a visited URL:
\* line 269 skips the links to visited URLs all alike)
RECURSIVE LinkLists(_, _, _, _)
LinkLists(n, k, vis, nu) ==
    IF n = 0 THEN {<<>>}
    ELSE {<<>>} \cup
         UNION {{<<[url |-> u, m |-> b]>> \o rest :
                     rest \in LinkLists(n - 1, Max2(k, u), vis, nu)} :
                u \in ((0..Min2(k + 1, nu - 1)) \ vis) \cup {BaseUrl},
                b \in BOOLEAN}

\* the links of the star site's base page, all with or all without a query word
StarLinks(b) == [i \in 1..StarWidth |-> [url |-> i, m |-> b]]

\* line 264: if depth < max_depth
CanExpandInclusive(depth, d) == depth <= d
CanExpand(depth, d) == depth < d

\* what a successful fetch of url at depth can return: [text, links].  The links
\* of a page that is not expanded are never read
PageChoices(url, depth) ==
    IF site = "star"
    THEN IF url = BaseUrl
         THEN {[text |-> TRUE, links |-> StarLinks(b)] : b \in BOOLEAN}
         ELSE {[text |-> TRUE, links |-> <<>>]}
    ELSE {[text |-> t, links |-> l] :
             t \in BOOLEAN,
             l \in IF CanExpand(depth, max_depth)
                   THEN IF site = "large"
                        THEN LinkLists(MaxLinksLarge, HighestMet,
                                       visited \cup {url}, NumUrlsLarge)
                        ELSE IF site = "tiny"
                        THEN LinkLists(MaxLinksTiny, HighestMet,
                                       visited \cup {url}, NumUrlsTiny)
                        ELSE LinkLists(MaxLinks, HighestMet,
                                       visited \cup {url}, NumUrls)
                   ELSE {<<>>}}

InsertAtEnd(q, e) == q \o <<e>>
\* line 272: to_visit.insert(0, (href, depth + 1))
InsertFront(q, e) == <<e>> \o q
\* line 274: to_visit.append((href, depth + 1))
InsertBack(q, e) == Append(q, e)

\* lines 270-274: a link with a query word goes to the front, any other to the back
QueueLink(q, link, depth) ==
    IF link.m
    THEN InsertFront(q, [url |-> link.url, depth |-> depth + 1])
    ELSE InsertBack(q, [url |-> link.url, depth |-> depth + 1])

\* lines 265-274: the loop over the page's links
RECURSIVE QueueLinks(_, _, _, _)
QueueLinks(q, links, vis, depth) ==
    IF links = <<>> THEN q
    ELSE QueueLinks(IF Head(links).url \notin vis
                    THEN QueueLink(q, Head(links), depth) ELSE q,
                    Tail(links), vis, depth)

\* the links of a page the loop queues, in page order
Exposed(links, vis) == SelectSeq(links, LAMBDA l : l.url \notin vis)
PriorityOf(links) == SelectSeq(links, LAMBDA l : l.m)
PlainOf(links) == SelectSeq(links, LAMBDA l : ~l.m)
UrlsOf(links) == {links[i].url : i \in 1..Len(links)}
FirstAt(links, u) == CHOOSE i \in 1..Len(links) :
                        links[i].url = u /\ \A j \in 1..(i - 1) : links[j].url # u

\* history: the pairs of distinct URLs a page exposes together, kept until a
\* is fetched.
\*   "mix": a is linked with a query word, b only without one
\*   "tie": a and b both have a query word, a discovered before b
NewPairs(ex) ==
    LET pr == PriorityOf(ex)
        P == UrlsOf(pr)
        N == UrlsOf(PlainOf(ex))
    IN  {[kind |-> "mix", a |-> x[1], b |-> x[2]] :
            x \in P \X (N \ P)}
        \cup
        {[kind |-> "tie", a |-> x[1], b |-> x[2]] :
            x \in {y \in P \X P : y[1] # y[2] /\ FirstAt(pr, y[1]) < FirstAt(pr, y[2])}}

PeekFront(q) == q
\* line 247: url, depth = to_visit.pop(0)
PopFront(q) == Tail(q)

MarkVisitedNever(vis, u) == vis
\* line 252: visited.add(url)
MarkVisited(vis, u) == vis \cup {u}

\* history: a page fetch is issued (session.get, lines 149 and 255;
\* extract_page_content, website_scraper.py line 136)
FetchIssued(pc) == [last |-> "fetch", skipped |-> pc.skipped \/ pc.last = "fetch"]
\* history: time.sleep(0.1) returns (line 279; website_scraper.py line 159)
Slept(pc) == [pc EXCEPT !.last = "sleep"]
\* one pass of a crawl loop that reaches the fetch: the fetch, then, whatever
\* came of it, the sleep that ends the pass
FetchThenSleep(pc) == Slept(FetchIssued(pc))

\* history: one more fetch of u (line 255 was reached)
CountFetch(f, u) ==
    IF u \in DOMAIN f THEN [f EXCEPT ![u] = @ + 1]
    ELSE [x \in DOMAIN f \cup {u} |-> IF x = u THEN 1 ELSE f[x]]

\* the cache plays no part in one scrape_for_query call
NoCache ==
    /\ cache = [k \in Keys |-> AbsentEntry] /\ ttl = 0 /\ now = 0
    /\ lastSet = [k \in Keys |-> NeverSet] /\ got = NoGet /\ thr = <<>>

CrawlInit ==
    /\ NoCache
    /\ NoFormat
    /\ NoRest
    /\ site \in {"small", "star"}
    /\ phase = "discover"
    /\ max_depth \in 0..MaxDepthArg
    /\ max_pages = Unread
    /\ to_visit = <<[url |-> BaseUrl, depth |-> 0]>>
    /\ visited = {}
    /\ relevant_urls = <<>>
    /\ started = 0 /\ running = {} /\ scraped_data = <<>> /\ result = <<>>
    /\ failed = {} /\ dropped = {} /\ deepest = 0 /\ pairs = {} /\ prio = <<>>
    /\ fetches = <<>> /\ error_links = {}

\* line 246: while to_visit and len(relevant_urls) < 10
LoopGuard == to_visit # <<>> /\ Len(relevant_urls) < MaxRelevant

\* lines 247-250: the popped entry is visited already (or too deep): continue
Discard ==
    /\ phase = "discover" /\ LoopGuard
    /\ LET e == Head(to_visit) IN
         e.url \in visited \/ e.depth > max_depth
    /\ to_visit' = PopFront(to_visit)
    /\ UNCHANGED <<cacheVars, thr, fmtVars, restVars, error_links, fetches, site, phase, max_depth, max_pages, visited,
                   relevant_urls, started, running, scraped_data, result,
                   failed, dropped, deepest, pairs, prio>>

CrawlErrorAborts == "raised"
\* lines 276-277: except Exception: logged, the loop goes on
CrawlErrorPhase == "discover"

\* lines 247-255, 276-279: the fetch raises; the URL stays visited.  (An
\* exception raised later in the try block leaves the state of a page with
\* fewer links, which FetchPage covers.)
FetchFails ==
    /\ phase = "discover" /\ LoopGuard
    /\ site # "star"
    /\ LET e == Head(to_visit) IN
         /\ ~(e.url \in visited \/ e.depth > max_depth)
         /\ visited' = MarkVisited(visited, e.url)
         /\ fetches' = CountFetch(fetches, e.url)
         /\ failed' = failed \cup {e.url}
         /\ deepest' = Max2(deepest, e.depth)
         /\ pairs' = {p \in pairs : p.a # e.url}
    /\ to_visit' = PopFront(to_visit)
    /\ phase' = CrawlErrorPhase
    /\ prio' = <<>>
    /\ pace' = FetchThenSleep(pace)
    /\ UNCHANGED <<cacheVars, thr, fmtVars, twiceVars, scoreVars, call, domVars, siteVars, quietVars, error_links, site, max_depth, max_pages,
                   relevant_urls, started, running, scraped_data, result,
                   dropped>>

\* lines 247-274, 279: the page is fetched, checked against the query and its
\* links are queued
FetchPage ==
    /\ phase = "discover" /\ LoopGuard
    /\ LET e == Head(to_visit)
           vis == MarkVisited(visited, e.url)
       IN
         /\ ~(e.url \in visited \/ e.depth > max_depth)
         /\ fetches' = CountFetch(fetches, e.url)
         /\ \E page \in PageChoices(e.url, e.depth) :
              LET ex == IF CanExpand(e.depth, max_depth)
                        THEN Exposed(page.links, vis) ELSE <<>>
              IN
                /\ visited' = vis
                /\ deepest' = Max2(deepest, e.depth)
                /\ relevant_urls' = IF page.text THEN Append(relevant_urls, e.url)
                                    ELSE relevant_urls
                /\ to_visit' = IF CanExpand(e.depth, max_depth)
                               THEN QueueLinks(PopFront(to_visit), page.links, vis, e.depth)
                               ELSE PopFront(to_visit)
                /\ pairs' = {p \in pairs : p.a # e.url} \cup NewPairs(ex)
                /\ prio' = [i \in 1..Len(PriorityOf(ex)) |->
                               [url |-> PriorityOf(ex)[i].url, depth |-> e.depth + 1]]
    /\ pace' = FetchThenSleep(pace)
    /\ UNCHANGED <<cacheVars, thr, fmtVars, twiceVars, scoreVars, call, domVars, siteVars, quietVars, error_links, site, phase, max_depth, max_pages,
                   started, running, scraped_data, result, failed, dropped>>

\* line 281: return relevant_urls; lines 293-297: the pool is created and one
\* task per URL of relevant_urls[:max_pages] is submitted.  max_pages, an
\* argument of scrape_for_query, is read here for the first time and is chosen
\* here
LoopExit ==
    /\ phase = "discover" /\ ~LoopGuard
    /\ \E p \in 0..MaxPagesArg : max_pages' = p
    /\ phase' = "pool"
    /\ UNCHANGED <<cacheVars, thr, fmtVars, restVars, error_links, fetches, site, max_depth, to_visit, visited,
                   relevant_urls, started, running, scraped_data, result,
                   failed, dropped, deepest, pairs, prio>>

AllTasks(rel, p) == rel
\* line 296: relevant_urls[:max_pages], max_pages >= 0
Tasks(rel, p) == SubSeq(rel, 1, Min2(p, Len(rel)))

\* a worker of the pool picks up the next submitted task and issues its fetch
\* (line 149); at most max_workers tasks are in flight
StartTask ==
    /\ phase = "pool"
    /\ started < Len(Tasks(relevant_urls, max_pages))
    /\ Cardinality(running) < MaxWorkers
    /\ running' = running \cup {Tasks(relevant_urls, max_pages)[started + 1]}
    /\ started' = started + 1
    /\ pace' = FetchIssued(pace)
    /\ UNCHANGED <<cacheVars, thr, fmtVars, twiceVars, scoreVars, call, domVars, siteVars, quietVars, error_links, fetches, site, phase, max_depth, max_pages, to_visit,
                   visited, relevant_urls, scraped_data, result,
                   failed, dropped, deepest, pairs, prio>>

\* lines 147-150, 181-183, 299-302: the fetch or the extraction of a task
\* raises, scrape_url_with_context returns None and the result is skipped
TaskFails ==
    /\ phase = "pool"
    /\ \E u \in running :
         /\ running' = running \ {u}
         /\ dropped' = dropped \cup {u}
    /\ UNCHANGED <<cacheVars, thr, fmtVars, restVars, error_links, fetches, site, phase, max_depth, max_pages, to_visit,
                   visited, relevant_urls, started, scraped_data, result,
                   failed, deepest, pairs, prio>>

\* lines 152-179, 299-302: a task completes with a record, which is appended
\* in completion order
TaskDone ==
    /\ phase = "pool"
    /\ \E u \in running, sc \in Scores :
         /\ running' = running \ {u}
         /\ scraped_data' = Append(scraped_data, [url |-> u, score |-> sc])
    /\ UNCHANGED <<cacheVars, thr, fmtVars, restVars, error_links, fetches, site, phase, max_depth, max_pages, to_visit,
                   visited, relevant_urls, started, result,
                   failed, dropped, deepest, pairs, prio>>

\* the place of record r in a list sorted by score, highest first, behind the
\* records that do not score lower (the sort is stable)
RECURSIVE InsertByScore(_, _)
InsertByScore(sorted, r) ==
    IF sorted = <<>> THEN <<r>>
    ELSE IF Head(sorted).score >= r.score
         THEN <<Head(sorted)>> \o InsertByScore(Tail(sorted), r)
         ELSE <<r>> \o sorted

RECURSIVE SortFrom(_, _)
SortFrom(sorted, rest) ==
    IF rest = <<>> THEN sorted
    ELSE SortFrom(InsertByScore(sorted, Head(rest)), Tail(rest))

Unsorted(s) == s
\* line 305: scraped_data.sort(key=lambda x: x['relevance_score'], reverse=True)
SortByRelevance(s) == SortFrom(<<>>, s)

\* lines 299-307: every future has completed; the list is sorted and returned
Return ==
    /\ phase = "pool"
    /\ started = Len(Tasks(relevant_urls, max_pages))
    /\ running = {}
    /\ result' = SortByRelevance(scraped_data)
    /\ phase' = "done"
    /\ UNCHANGED <<cacheVars, thr, fmtVars, restVars, error_links, fetches, site, max_depth, max_pages, to_visit, visited,
                   relevant_urls, started, running, scraped_data,
                   failed, dropped, deepest, pairs, prio>>

Next ==
    \/ Discard
    \/ FetchFails
    \/ FetchPage
    \/ LoopExit
    \/ StartTask
    \/ TaskFails
    \/ TaskDone
    \/ Return

Spec == CrawlInit /\ [][Next]_vars

\* find_relevant_urls(query, max_depth) alone, on the larger sites
DiscoverInit ==
    /\ NoCache
    /\ NoFormat
    /\ NoRest
    /\ site = "large"
    /\ phase = "discover"
    /\ max_depth \in 0..MaxDepthArg
    /\ max_pages = Unread
    /\ to_visit = <<[url |-> BaseUrl, depth |-> 0]>>
    /\ visited = {}
    /\ relevant_urls = <<>>
    /\ started = 0 /\ running = {} /\ scraped_data = <<>> /\ result = <<>>
    /\ failed = {} /\ dropped = {} /\ deepest = 0 /\ pairs = {} /\ prio = <<>>
    /\ fetches = <<>> /\ error_links = {}

\* line 281: return relevant_urls
Found ==
    /\ phase = "discover" /\ ~LoopGuard
    /\ phase' = "found"
    /\ UNCHANGED <<cacheVars, thr, fmtVars, restVars, error_links, fetches, site, max_depth, max_pages, to_visit,
                   visited, relevant_urls, started, running, scraped_data, result,
                   failed, dropped, deepest, pairs, prio>>

DiscoverNext ==
    \/ Discard
    \/ FetchFails
    \/ FetchPage
    \/ Found

SpecDiscover == DiscoverInit /\ [][DiscoverNext]_vars

(***************************************************************************)
(* EverestWebsiteScraper.scrape_website (backend/website_scraper.py)       *)
(*                                                                         *)
(* URLs are numbers: SeedUrls are the four URLs the queue starts with      *)
(* (lines 119-124), the others are pages of the site that links lead to.   *)
(* Whether a URL contains a priority keyword (line 143) is a property of   *)
(* the URL.  What extract_page_content returns is chosen when it is        *)
(* called: None or a page without content, or a page with content and its  *)
(* links; of the links only the first three are read (line 145).           *)
(***************************************************************************)
NumSiteUrls == 6

\* line 145: page_data['links'][:3]
LinkCut == 3
\* line 153: priority_links[:2]
PriorityCut == 2
\* line 155: regular_links[:1]
RegularCut == 1

SiteUrls == 0..(NumSiteUrls - 1)
\* lines 119-124: base_url, /about/contact, /about/welcome, /who-we-are
SeedUrls == <<0, 1, 2, 3>>

\* line 150: any(keyword in link.lower() for keyword in priority_keywords);
\* "contact" and "about" are in two of the seeds, and in every second other URL
HasKeyword(u) == u \in {1, 2} \/ (u >= Len(SeedUrls) /\ u % 2 = 1)

First(s, n) == SubSeq(s, 1, Min2(n, Len(s)))

\* lines 95-101: the first LinkCut links of a page: any same-site URLs that
\* are not in visited_urls, repeated or not
RECURSIVE SiteLinkLists(_, _)
SiteLinkLists(n, vis) ==
    IF n = 0 THEN {<<>>}
    ELSE {<<>>} \cup
         {<<u>> \o rest : u \in SiteUrls \ vis, rest \in SiteLinkLists(n - 1, vis)}

\* lines 141-156: the links that pass the test of line 146 against the queue
\* as it is before any of them is appended; two of those with a keyword, then
\* one of the others, are appended
SiteQueueLinks(q, links, vis) ==
    LET new == SelectSeq(First(links, LinkCut),
                         LAMBDA l : l \notin vis /\ l \notin SeqRange(q))
        priority_links == SelectSeq(new, HasKeyword)
        regular_links == SelectSeq(new, LAMBDA l : ~HasKeyword(l))
    IN  q \o First(priority_links, PriorityCut) \o First(regular_links, RegularCut)

SiteInit ==
    /\ urls_to_visit = SeedUrls
    /\ visited_urls = {}
    /\ site_data = <<>>
    /\ site_pc = "loop"
    /\ site_max \in 0..NumSiteUrls
    /\ site_fetches = <<>>

\* line 128: while urls_to_visit and len(self.scraped_data) < max_pages
SiteLoopGuard == urls_to_visit # <<>> /\ Len(site_data) < site_max

\* lines 129-132: the popped URL is in visited_urls: continue
SiteDiscard ==
    /\ site_pc = "loop" /\ SiteLoopGuard
    /\ Head(urls_to_visit) \in visited_urls
    /\ urls_to_visit' = Tail(urls_to_visit)
    /\ UNCHANGED <<cacheVars, thr, lateVars, crawlVars, fmtVars, twiceVars, scoreVars, call,
                   domVars, visited_urls, site_data, site_pc, site_max, site_fetches>>

\* lines 129-137, 112-114: extract_page_content returns None (the fetch or the
\* parsing raised) or a page without content: nothing is kept
SiteFetchNone ==
    /\ site_pc = "loop" /\ SiteLoopGuard
    /\ Head(urls_to_visit) \notin visited_urls
    /\ visited_urls' = visited_urls \cup {Head(urls_to_visit)}
    /\ site_fetches' = CountFetch(site_fetches, Head(urls_to_visit))
    /\ urls_to_visit' = Tail(urls_to_visit)
    /\ pace' = FetchThenSleep(pace)
    /\ UNCHANGED <<cacheVars, thr, quietVars, crawlVars, fmtVars, twiceVars, scoreVars, call,
                   domVars, site_data, site_pc, site_max>>

\* lines 129-159: the page has content: it is kept and its links are queued
SiteFetchPage ==
    /\ site_pc = "loop" /\ SiteLoopGuard
    /\ Head(urls_to_visit) \notin visited_urls
    /\ LET url == Head(urls_to_visit)
           vis == visited_urls \cup {url}
       IN
         /\ visited_urls' = vis
         /\ site_fetches' = CountFetch(site_fetches, url)
         /\ site_data' = Append(site_data, url)
         /\ \E links \in SiteLinkLists(LinkCut, vis) :
               urls_to_visit' = SiteQueueLinks(Tail(urls_to_visit), links, vis)
    /\ pace' = FetchThenSleep(pace)
    /\ UNCHANGED <<cacheVars, thr, quietVars, crawlVars, fmtVars, twiceVars, scoreVars, call,
                   domVars, site_pc, site_max>>

\* line 162: return self.scraped_data
SiteReturn ==
    /\ site_pc = "loop" /\ ~SiteLoopGuard
    /\ site_pc' = "done"
    /\ UNCHANGED <<cacheVars, thr, lateVars, crawlVars, fmtVars, twiceVars, scoreVars, call,
                   domVars, urls_to_visit, visited_urls, site_data, site_max,
                   site_fetches>>

\* find_relevant_urls(query, max_depth) is entered on a site of family f
DiscoverEntry(f) ==
    /\ site = f
    /\ phase = "discover"
    /\ max_depth \in 0..MaxDepthArg
    /\ max_pages = Unread
    /\ to_visit = <<[url |-> BaseUrl, depth |-> 0]>>
    /\ visited = {}
    /\ relevant_urls = <<>>
    /\ started = 0 /\ running = {} /\ scraped_data = <<>> /\ result = <<>>
    /\ failed = {} /\ dropped = {} /\ deepest = 0 /\ pairs = {} /\ prio = <<>>
    /\ fetches = <<>> /\ error_links = {}

\* lines 255-274: the response has a status >= 400 (timeout and connection
\* errors raise, FetchFails); no raise_for_status() follows line 255, so the
\* body is parsed, matched against the query and its links are queued like
\* those of any page
FetchErrorStatus ==
    /\ phase = "discover" /\ LoopGuard
    /\ site # "star"
    /\ LET e == Head(to_visit)
           vis == MarkVisited(visited, e.url)
       IN
         /\ ~(e.url \in visited \/ e.depth > max_depth)
         /\ fetches' = CountFetch(fetches, e.url)
         /\ failed' = failed \cup {e.url}
         /\ \E page \in PageChoices(e.url, e.depth) :
              LET ex == IF CanExpand(e.depth, max_depth)
                        THEN Exposed(page.links, vis) ELSE <<>>
              IN
                /\ visited' = vis
                /\ deepest' = Max2(deepest, e.depth)
                /\ relevant_urls' = IF page.text THEN Append(relevant_urls, e.url)
                                    ELSE relevant_urls
                /\ to_visit' = IF CanExpand(e.depth, max_depth)
                               THEN QueueLinks(PopFront(to_visit), page.links, vis, e.depth)
                               ELSE PopFront(to_visit)
                /\ error_links' = error_links \cup UrlsOf(ex)
                /\ pairs' = {p \in pairs : p.a # e.url} \cup NewPairs(ex)
                /\ prio' = [i \in 1..Len(PriorityOf(ex)) |->
                               [url |-> PriorityOf(ex)[i].url, depth |-> e.depth + 1]]
    /\ pace' = FetchThenSleep(pace)
    /\ UNCHANGED <<cacheVars, thr, fmtVars, twiceVars, scoreVars, call, domVars, siteVars, quietVars, site, phase, max_depth,
                   max_pages, started, running, scraped_data, result, dropped>>

\* find_relevant_urls on a "small" site whose server also answers with error
\* statuses
StatusInit ==
    /\ NoCache
    /\ NoFormat
    /\ NoRest
    /\ DiscoverEntry("small")

StatusNext ==
    \/ Discard
    \/ FetchFails
    \/ FetchPage
    \/ FetchErrorStatus
    \/ Found

SpecStatus == StatusInit /\ [][StatusNext]_vars

\* one crawl: find_relevant_urls on a "small" or a "star" site, or scrape_website
CrawlersInit ==
    /\ NoCache
    /\ NoFormat
    /\ NoTwice /\ NoScore /\ NoCall /\ NoExtract /\ NoLate
    /\ \/ /\ NoSite
          /\ \E f \in {"small", "star"} : DiscoverEntry(f)
       \/ /\ NoCrawl
          /\ SiteInit

\* the same on a "tiny" or a "star" site
TinyCrawlersInit ==
    /\ NoCache
    /\ NoFormat
    /\ NoTwice /\ NoScore /\ NoCall /\ NoExtract /\ NoLate
    /\ \/ /\ NoSite
          /\ \E f \in {"tiny", "star"} : DiscoverEntry(f)
       \/ /\ NoCrawl
          /\ SiteInit

CrawlersNext ==
    \/ Discard
    \/ FetchFails
    \/ FetchPage
    \/ Found
    \/ SiteDiscard
    \/ SiteFetchNone
    \/ SiteFetchPage
    \/ SiteReturn

SpecCrawlers == CrawlersInit /\ [][CrawlersNext]_vars

\* the loops run on: every fetch resolves within its timeout (lines 255 and
\* website_scraper.py 47) and the sleeps end
SpecCrawlersFair ==
    TinyCrawlersInit /\ [][CrawlersNext]_vars /\ WF_vars(CrawlersNext)

(***************************************************************************)
(* DynamicWebScraper.format_for_context                                    *)
(*                                                                         *)
(* The ranked page list is any list of up to MaxRecords records whose URLs *)
(* and link URLs are among NumFmtUrls URLs (numbers); a record has up to   *)
(* MaxFmtLinks links [url, m], m telling whether the link's text or URL    *)
(* contains a query word (lines 355-356).  The records and their links are *)
(* chosen as the loops read them.  Of the digest only the lines that cite  *)
(* a URL are kept: "(Source: url)" and the lines under "Related pages:".   *)
(***************************************************************************)
NumFmtUrls == 5
MaxRecords == 3
MaxFmtLinks == 4

\* line 362: relevant_links[:3]
MaxRelatedLinks == 3

FmtUrls == 0..(NumFmtUrls - 1)

FormatInit ==
    /\ NoCache
    /\ NoCrawl
    /\ NoRest
    /\ fmt_pc = "next" /\ data = NoPage /\ seen_urls = {} /\ link_urls_seen = {}
    /\ relevant_links = <<>> /\ fmt_links = 0 /\ cited = <<>> /\ fmt_in = <<>>

\* line 323: if data['url'] in seen_urls
IsSeen(u, seen) == u \in seen

LinkIsNewOnPage(u, lseen, seen) == u \notin lseen
\* line 354: link['url'] not in link_urls_seen and link['url'] not in seen_urls
LinkIsNew(u, lseen, seen) == u \notin lseen /\ u \notin seen

\* line 362: relevant_links[:3]
FirstLinks(links) == SubSeq(links, 1, Min2(MaxRelatedLinks, Len(links)))

\* lines 321-324: the next record's URL has been seen: continue
FormatSkip ==
    /\ fmt_pc = "next" /\ Len(fmt_in) < MaxRecords
    /\ \E u \in FmtUrls :
         /\ IsSeen(u, seen_urls)
         /\ fmt_in' = Append(fmt_in, u)
    /\ UNCHANGED <<cacheVars, thr, crawlVars, restVars, fmt_pc, data, seen_urls,
                   link_urls_seen, relevant_links, fmt_links, cited>>

\* lines 321-352: the next record's URL is new: it is added to seen_urls and
\* cited as the page's source
FormatSource ==
    /\ fmt_pc = "next" /\ Len(fmt_in) < MaxRecords
    /\ \E u \in FmtUrls :
         /\ ~IsSeen(u, seen_urls)
         /\ fmt_in' = Append(fmt_in, u)
         /\ seen_urls' = seen_urls \cup {u}
         /\ cited' = Append(cited, [kind |-> "source", url |-> u])
         /\ data' = u
    /\ link_urls_seen' = {}
    /\ relevant_links' = <<>>
    /\ fmt_links' = 0
    /\ fmt_pc' = "links"
    /\ UNCHANGED <<cacheVars, thr, crawlVars, restVars>>

\* lines 353-358: one link of structured['links']
FormatLink ==
    /\ fmt_pc = "links" /\ fmt_links < MaxFmtLinks
    /\ \E u \in FmtUrls, m \in BOOLEAN :
         IF LinkIsNew(u, link_urls_seen, seen_urls) /\ m
         THEN /\ relevant_links' = Append(relevant_links, u)
              /\ link_urls_seen' = link_urls_seen \cup {u}
         ELSE UNCHANGED <<relevant_links, link_urls_seen>>
    /\ fmt_links' = fmt_links + 1
    /\ UNCHANGED <<cacheVars, thr, crawlVars, restVars, fmt_pc, data, seen_urls, cited,
                   fmt_in>>

\* lines 360-371: the first three relevant links are cited under "Related
\* pages:" and added to seen_urls
FormatRelated ==
    /\ fmt_pc = "links"
    /\ LET out == FirstLinks(relevant_links) IN
         /\ cited' = cited \o [i \in 1..Len(out) |->
                                  [kind |-> "related", url |-> out[i]]]
         /\ seen_urls' = seen_urls \cup SeqRange(out)
    /\ fmt_pc' = "next"
    /\ data' = NoPage
    /\ link_urls_seen' = {}
    /\ relevant_links' = <<>>
    /\ fmt_links' = 0
    /\ UNCHANGED <<cacheVars, thr, crawlVars, restVars, fmt_in>>

\* lines 311-312, 373-374: the list is empty or exhausted: the digest is returned
FormatEnd ==
    /\ fmt_pc = "next"
    /\ fmt_pc' = "end"
    /\ UNCHANGED <<cacheVars, thr, crawlVars, restVars, data, seen_urls, link_urls_seen,
                   relevant_links, fmt_links, cited, fmt_in>>

FormatNext ==
    \/ FormatSkip
    \/ FormatSource
    \/ FormatLink
    \/ FormatRelated
    \/ FormatEnd

SpecFormat == FormatInit /\ [][FormatNext]_vars

\* the number of lines of the digest that cite u
TimesCited(u) == Cardinality({i \in 1..Len(cited) : cited[i].url = u})

(***************************************************************************)
(* DynamicWebScraper._build_full_text and _calculate_relevance             *)
(*                                                                         *)
(* A text is a sequence of characters.  The structured content of a page   *)
(* is [headings, paragraphs, lists, steps] as extract_structured_content   *)
(* builds it; the query is the query string.  The page and the query are   *)
(* drawn from small families; the page is scored, then occurrences of a    *)
(* query word are added to it, one at a time, and it is scored again.      *)
(***************************************************************************)
MaxAdds == 1

\* line 215: return 1.0
NeutralScore == 1
NotScored == -1

T_aba == <<"A", "b", "a">>
T_b == <<"b">>
T_ab_a == <<"a", "b", " ", "a">>
T_ba == <<"b", "a">>

HeadingChoices ==
    {<<>>,
     <<[level |-> 2, order |-> 1, text |-> T_aba]>>,
     <<[level |-> 2, order |-> 1, text |-> T_aba],
       [level |-> 1, order |-> 0, text |-> T_b]>>}
ParagraphChoices == {<<>>, <<T_ab_a>>, <<<<"a", "b">>, <<"a">>>>}
ListChoices ==
    {<<>>, <<[type |-> "ordered", items |-> <<T_ba>>]>>,
           <<[type |-> "unordered", items |-> <<T_ba>>]>>}
StepChoices == {<<>>, <<T_b>>}

\* the query strings: "", " ", "ba", "aba ba", "A  b"
QueryChoices ==
    {<<>>, <<" ">>, T_ba, <<"a", "b", "a", " ", "b", "a">>, <<"A", " ", " ", "b">>}

\* str.lower()
Lower(c) ==
    CASE c = "A" -> "a"
      [] c = "B" -> "b"
      [] c = "S" -> "s"
      [] OTHER -> c
LowerStr(t) == [i \in 1..Len(t) |-> Lower(t[i])]

IsSpace(c) == c \in {" ", "\n"}

\* line 217: str.split(): the maximal runs of characters that are not whitespace
RECURSIVE SplitFrom(_, _, _)
SplitFrom(t, cur, acc) ==
    IF t = <<>> THEN (IF cur = <<>> THEN acc ELSE Append(acc, cur))
    ELSE IF IsSpace(Head(t))
         THEN SplitFrom(Tail(t), <<>>, IF cur = <<>> THEN acc ELSE Append(acc, cur))
         ELSE SplitFrom(Tail(t), Append(cur, Head(t)), acc)
Split(t) == SplitFrom(t, <<>>, <<>>)

\* line 190: key=lambda x: (x['order'], x['level'])
HeadingBefore(a, b) ==
    a.order < b.order \/ (a.order = b.order /\ a.level < b.level)

RECURSIVE InsertHeading(_, _)
InsertHeading(sorted, h) ==
    IF sorted = <<>> THEN <<h>>
    ELSE IF HeadingBefore(h, Head(sorted))
         THEN <<h>> \o sorted
         ELSE <<Head(sorted)>> \o InsertHeading(Tail(sorted), h)

\* line 190: sorted(structured_content['headings'], key=...)   (stable)
RECURSIVE SortHeadings(_, _)
SortHeadings(sorted, rest) ==
    IF rest = <<>> THEN sorted
    ELSE SortHeadings(InsertHeading(sorted, Head(rest)), Tail(rest))

DigitChars == <<"0", "1", "2", "3", "4", "5", "6", "7", "8", "9">>
\* f"{i}"
RECURSIVE Digits(_)
Digits(n) ==
    IF n < 10 THEN <<DigitChars[n + 1]>>
    ELSE Digits(n \div 10) \o <<DigitChars[(n % 10) + 1]>>

\* line 203: the bullet character U+2022, one character that is in no query
Bullet == "*"

\* lines 197-203: the parts of one list
ListParts(lst) ==
    IF lst.type = "ordered"
    THEN [i \in 1..Len(lst.items) |-> Digits(i) \o <<".", " ">> \o lst.items[i]]
    ELSE [i \in 1..Len(lst.items) |-> <<Bullet, " ">> \o lst.items[i]]

RECURSIVE Concat(_)
Concat(ss) == IF ss = <<>> THEN <<>> ELSE Head(ss) \o Concat(Tail(ss))

\* line 207: "\nSteps found:"
StepsMarker ==
    <<"\n", "S", "t", "e", "p", "s", " ", "f", "o", "u", "n", "d", ":">>

\* lines 187-208: parts
Parts(c) ==
    LET hs == SortHeadings(<<>>, c.headings) IN
    [i \in 1..Len(hs) |-> hs[i].text]
    \o c.paragraphs
    \o Concat([i \in 1..Len(c.lists) |-> ListParts(c.lists[i])])
    \o (IF c.steps # <<>> THEN <<StepsMarker>> \o c.steps ELSE <<>>)

NoSeparator == <<>>
\* line 210: "\n".join(parts)
Separator == <<"\n">>

RECURSIVE Join(_, _)
Join(parts, sep) ==
    IF parts = <<>> THEN <<>>
    ELSE IF Len(parts) = 1 THEN Head(parts)
         ELSE Head(parts) \o sep \o Join(Tail(parts), sep)

\* lines 185-210
BuildFullText(c) == Join(Parts(c), Separator)

\* str.count(word): the occurrences of word in t that do not overlap, found
\* from the left, from position i on
RECURSIVE CountFrom(_, _, _)
CountFrom(t, w, i) ==
    IF i + Len(w) - 1 > Len(t) THEN 0
    ELSE IF SubSeq(t, i, i + Len(w) - 1) = w
         THEN 1 + CountFrom(t, w, i + Len(w))
         ELSE CountFrom(t, w, i + 1)
Count(t, w) == CountFrom(t, w, 1)

RECURSIVE SumCounts(_, _)
SumCounts(t, ws) ==
    IF ws = <<>> THEN 0
    ELSE (IF Count(t, Head(ws)) > 0 THEN Count(t, Head(ws)) ELSE 0)
         + SumCounts(t, Tail(ws))

IsNeverEmpty(q) == FALSE
\* line 214: if not query
IsEmptyQuery(q) == q = <<>>

\* lines 212-235
CalculateRelevance(c, q) ==
    IF IsEmptyQuery(q) THEN NeutralScore
    ELSE SumCounts(LowerStr(BuildFullText(c)), Split(LowerStr(q)))

\* query_words, each once
QueryWords(q) == SeqRange(Split(LowerStr(q)))

NoAdd == [n |-> 0, kind |-> "none", before |-> NotScored]

ScoreInit ==
    /\ NoCache /\ NoCrawl /\ NoFormat
    /\ NoTwice /\ NoCall /\ NoExtract /\ NoSite /\ NoLate
    /\ \E h \in HeadingChoices, p \in ParagraphChoices,
          l \in ListChoices, s \in StepChoices :
          content = [headings |-> h, paragraphs |-> p, lists |-> l, steps |-> s]
    /\ query \in QueryChoices
    /\ score = NotScored
    /\ adds = NoAdd

\* lines 212-235: the page is scored
Calculate ==
    /\ score = NotScored
    /\ score' = CalculateRelevance(content, query)
    /\ UNCHANGED <<cacheVars, thr, lateVars, crawlVars, fmtVars, twiceVars, call, domVars,
                   siteVars, content, query, adds>>

\* word w put into text t behind its first p characters
InsertAt(t, p, w) == SubSeq(t, 1, p) \o w \o SubSeq(t, p + 1, Len(t))

\* position p of t is at the start or the end of t or next to a space
AtWordBoundary(t, p) ==
    \/ p = 0 \/ p = Len(t)
    \/ IsSpace(t[p]) \/ IsSpace(t[p + 1])

AddKind(t, p) == IF AtWordBoundary(t, p) THEN "word" ELSE "splice"

\* the pages with one more occurrence of w inside the text of an element of
\* one of the four zones, at any position, and the kind of the addition
AddedInText(c, w) ==
    UNION {{[page |-> [c EXCEPT !.headings[i].text = InsertAt(@, p, w)],
             kind |-> AddKind(c.headings[i].text, p)] :
               p \in 0..Len(c.headings[i].text)} : i \in 1..Len(c.headings)}
    \cup
    UNION {{[page |-> [c EXCEPT !.paragraphs[i] = InsertAt(@, p, w)],
             kind |-> AddKind(c.paragraphs[i], p)] :
               p \in 0..Len(c.paragraphs[i])} : i \in 1..Len(c.paragraphs)}
    \cup
    UNION {UNION {{[page |-> [c EXCEPT !.lists[k].items[i] = InsertAt(@, p, w)],
                    kind |-> AddKind(c.lists[k].items[i], p)] :
                      p \in 0..Len(c.lists[k].items[i])} :
                  i \in 1..Len(c.lists[k].items)} : k \in 1..Len(c.lists)}
    \cup
    UNION {{[page |-> [c EXCEPT !.steps[i] = InsertAt(@, p, w)],
             kind |-> AddKind(c.steps[i], p)] :
               p \in 0..Len(c.steps[i])} : i \in 1..Len(c.steps)}

\* the pages with w as one more element: a heading (h1 or h3), a paragraph, an
\* item of a list, a list of one item, or a step
AddedAsElement(c, w) ==
    {[page |-> [c EXCEPT !.headings =
                   Append(@, [level |-> l, order |-> l - 1, text |-> w])],
      kind |-> "element"] : l \in {1, 3}}
    \cup
    {[page |-> [c EXCEPT !.paragraphs = Append(@, w)], kind |-> "element"]}
    \cup
    {[page |-> [c EXCEPT !.lists[k].items = Append(@, w)], kind |-> "element"] :
        k \in 1..Len(c.lists)}
    \cup
    {[page |-> [c EXCEPT !.lists = Append(@, [type |-> t, items |-> <<w>>])],
      kind |-> "element"] : t \in {"ordered", "unordered"}}
    \cup
    {[page |-> [c EXCEPT !.steps = Append(@, w)], kind |-> "element"]}

\* an occurrence of a query word is added to the page, which is scored again
AddOccurrence ==
    /\ score # NotScored /\ adds.n < MaxAdds
    /\ \E w \in QueryWords(query) :
         \E a \in AddedInText(content, w) \cup AddedAsElement(content, w) :
            /\ content' = a.page
            /\ score' = CalculateRelevance(a.page, query)
            /\ adds' = [n |-> adds.n + 1, kind |-> a.kind, before |-> score]
    /\ UNCHANGED <<cacheVars, thr, lateVars, crawlVars, fmtVars, twiceVars, call, domVars,
                   siteVars, query>>

ScoreNext ==
    \/ Calculate
    \/ AddOccurrence

SpecScore == ScoreInit /\ [][ScoreNext]_vars

(***************************************************************************)
(* get_dynamic_content_for_query, one caller at a time                     *)
(*                                                                         *)
(* call = [pc, key, cached_data, scraped_data, out, crawled, n]: the       *)
(* position in the function, cache_key, its locals, the string returned    *)
(* (a sequence of lines, <<>> is ""), whether scrape_for_query was called, *)
(* and the number of calls made so far.  scrape_for_query returns any page *)
(* list, the empty one included.                                           *)
(***************************************************************************)
MaxCalls == 2

EmptyString == <<>>

IsNoList(l) == FALSE
\* line 311: if not scraped_data
IsEmptyList(l) == l = <<>>

\* lines 311-319, 373-374: "" for the empty list, else the header and the
\* lines of the pages
FormatForContext(l) ==
    IF IsEmptyList(l) THEN EmptyString
    ELSE <<"=== LIVE WEBSITE CONTENT ===">> \o l

\* line 415: if cached_data   (None and the empty list are both false)
IsTruthy(r) == r.hit /\ r.data # <<>>

QueryInit ==
    /\ CacheInit
    /\ thr = <<>>
    /\ NoCrawl /\ NoFormat
    /\ NoTwice /\ NoScore /\ NoExtract /\ NoSite /\ NoLate
    /\ call = IdleCall

\* lines 412-413: cache_key is built and scraping_cache.get(cache_key) is called
QueryGet ==
    /\ call.pc = "idle" /\ call.n < MaxCalls
    /\ \E k \in Keys :
         /\ call' = [IdleCall EXCEPT !.pc = "got", !.key = k, !.n = call.n + 1,
                        !.cached_data = GetResult(cache, k, now, ttl)]
         /\ cache' = GetCache(cache, k, now, ttl)
    /\ UNCHANGED <<ttl, now, lastSet, got, thr, lateVars, crawlVars, fmtVars, twiceVars,
                   scoreVars, domVars, siteVars>>

\* lines 415-418: the cached list is formatted and returned
QueryHit ==
    /\ call.pc = "got" /\ IsTruthy(call.cached_data)
    /\ call' = [call EXCEPT !.pc = "returned",
                            !.out = FormatForContext(call.cached_data.data)]
    /\ UNCHANGED <<cacheVars, thr, lateVars, crawlVars, fmtVars, twiceVars,
                   scoreVars, domVars, siteVars>>

\* lines 420-421: scraper.scrape_for_query(query, max_pages=3)
QueryScrape ==
    /\ call.pc = "got" /\ ~IsTruthy(call.cached_data)
    /\ \E l \in DataValues :
         call' = [call EXCEPT !.pc = "scraped", !.scraped_data = l,
                              !.crawled = TRUE]
    /\ UNCHANGED <<cacheVars, thr, lateVars, crawlVars, fmtVars, twiceVars,
                   scoreVars, domVars, siteVars>>

\* line 424: scraping_cache.set(cache_key, scraped_data)
QuerySet ==
    /\ call.pc = "scraped"
    /\ cache' = SetCache(cache, call.key, call.scraped_data, now)
    /\ call' = [call EXCEPT !.pc = "set"]
    /\ UNCHANGED <<ttl, now, lastSet, got, thr, lateVars, crawlVars, fmtVars, twiceVars,
                   scoreVars, domVars, siteVars>>

\* line 427: scraping_cache.clear_old()
QueryClearOld ==
    /\ call.pc = "set"
    /\ cache' = ClearOldCache(cache, now, ttl)
    /\ call' = [call EXCEPT !.pc = "cleared"]
    /\ UNCHANGED <<ttl, now, lastSet, got, thr, lateVars, crawlVars, fmtVars, twiceVars,
                   scoreVars, domVars, siteVars>>

\* line 429: return scraper.format_for_context(scraped_data, query)
QueryFormat ==
    /\ call.pc = "cleared"
    /\ call' = [call EXCEPT !.pc = "returned",
                            !.out = FormatForContext(call.scraped_data)]
    /\ UNCHANGED <<cacheVars, thr, lateVars, crawlVars, fmtVars, twiceVars,
                   scoreVars, domVars, siteVars>>

\* the caller has the result; the next call can be made
QueryDone ==
    /\ call.pc = "returned"
    /\ call' = [call EXCEPT !.pc = "idle"]
    /\ UNCHANGED <<cacheVars, thr, lateVars, crawlVars, fmtVars, twiceVars,
                   scoreVars, domVars, siteVars>>

QueryNext ==
    \/ Tick
    \/ QueryGet
    \/ QueryHit
    \/ QueryScrape
    \/ QuerySet
    \/ QueryClearOld
    \/ QueryFormat
    \/ QueryDone

SpecQuery == QueryInit /\ [][QueryNext]_vars

(***************************************************************************)
(* scrape_url_with_context: the removal of non-content elements and        *)
(* extract_structured_content (headings and paragraphs)                    *)
(*                                                                         *)
(* The parsed document is a sequence of element nodes in document order:   *)
(* [tag, parent, len, kept], parent = 0 for a child of the document, len   *)
(* the length of the cleaned text the element holds itself, kept = FALSE   *)
(* once the element is removed from the tree.  html.parser gives script    *)
(* and style no child elements.                                            *)
(***************************************************************************)
MaxNodes == 3

\* line 59: len(text) > 20
MinParagraphLen == 20

\* line 155: soup(['script', 'style', 'nav', 'footer', 'header'])
StripTags == {"script", "style", "nav", "footer", "header"}
\* line 46: ['h1', 'h2', 'h3', 'h4']
HeadingTags == <<"h1", "h2", "h3", "h4">>
ContentTags == SeqRange(HeadingTags) \cup {"p"}

\* the elements documents are made of: tag and own text length
NodeKinds ==
    {[tag |-> "nav", len |-> 0], [tag |-> "script", len |-> 0],
     [tag |-> "div", len |-> 0],
     [tag |-> "h2", len |-> 0], [tag |-> "h2", len |-> 5],
     [tag |-> "p", len |-> MinParagraphLen], [tag |-> "p", len |-> MinParagraphLen + 1]}

RECURSIVE Ancestors(_, _)
Ancestors(s, i) ==
    IF s[i].parent = 0 THEN {}
    ELSE {s[i].parent} \cup Ancestors(s, s[i].parent)

\* the elements the next element of the document can be a child of: those
\* still open after the last one (0 is the document)
OpenParents(s) ==
    IF s = <<>> THEN {0}
    ELSE {0} \cup {j \in Ancestors(s, Len(s)) \cup {Len(s)} :
                      s[j].tag \notin {"script", "style"}}

\* the documents of up to n elements
RECURSIVE Docs(_)
Docs(n) ==
    IF n = 0 THEN {<<>>}
    ELSE LET prev == Docs(n - 1) IN
         prev \cup
         UNION {{Append(d, [tag |-> k.tag, len |-> k.len, parent |-> par,
                            kept |-> TRUE]) :
                    k \in NodeKinds, par \in OpenParents(d)} :
                d \in {x \in prev : Len(x) = n - 1}}

IsStripTag(s, i) == s[i].tag \in StripTags
\* lines 155-156: tag.decompose() removes the element and all its descendants
IsDecomposed(s, i) ==
    \E j \in Ancestors(s, i) \cup {i} : s[j].tag \in StripTags

\* element.get_text(), cleaned: the text of the element and of the elements
\* of the tree below it
TextLen(s, i) ==
    LET below == {j \in 1..Len(s) : s[j].kept /\ (j = i \/ i \in Ancestors(s, j))}
        RECURSIVE Sum(_)
        Sum(S) == IF S = {} THEN 0
                  ELSE LET x == CHOOSE y \in S : TRUE IN s[x].len + Sum(S \ {x})
    IN  Sum(below)

\* soup.find_all(tag): the elements of the tree with that tag, in document order
FindAll(s, tag) ==
    SelectSeq([i \in 1..Len(s) |-> i], LAMBDA i : s[i].kept /\ s[i].tag = tag)

\* lines 46-54: the headings, level after level
HeadingsOf(s) ==
    Concat([l \in 1..Len(HeadingTags) |->
              LET found == SelectSeq(FindAll(s, HeadingTags[l]),
                                     LAMBDA i : TextLen(s, i) > 0)
              IN  [x \in 1..Len(found) |->
                      [level |-> l, order |-> l - 1, node |-> found[x]]]])

\* lines 57-60: the paragraphs of more than 20 characters
ParagraphsOf(s) ==
    SelectSeq(FindAll(s, "p"), LAMBDA i : TextLen(s, i) > MinParagraphLen)

ExtractInit ==
    /\ NoCache /\ NoCrawl /\ NoFormat
    /\ NoTwice /\ NoScore /\ NoCall /\ NoSite /\ NoLate
    /\ soup \in Docs(MaxNodes)
    /\ ex_pc = "parsed"
    /\ structured = [headings |-> <<>>, paragraphs |-> <<>>]

\* lines 155-156: the non-content elements are removed
Decompose ==
    /\ ex_pc = "parsed"
    /\ soup' = [i \in 1..Len(soup) |->
                  [soup[i] EXCEPT !.kept = ~IsDecomposed(soup, i)]]
    /\ ex_pc' = "stripped"
    /\ UNCHANGED <<cacheVars, thr, lateVars, crawlVars, fmtVars, twiceVars, scoreVars, call,
                   siteVars, structured>>

\* line 166: structured_content = self.extract_structured_content(soup, url)
Extract ==
    /\ ex_pc = "stripped"
    /\ structured' = [headings |-> HeadingsOf(soup), paragraphs |-> ParagraphsOf(soup)]
    /\ ex_pc' = "extracted"
    /\ UNCHANGED <<cacheVars, thr, lateVars, crawlVars, fmtVars, twiceVars, scoreVars, call,
                   siteVars, soup>>

ExtractNext ==
    \/ Decompose
    \/ Extract

SpecExtract == ExtractInit /\ [][ExtractNext]_vars

\* every h1-h4 and p element of the document lies inside a nav, footer,
\* header, script or style element
ContentOnlyInStripped ==
    \A i \in 1..Len(soup) :
        soup[i].tag \in ContentTags =>
            \E j \in Ancestors(soup, i) : soup[j].tag \in StripTags

(***************************************************************************)
(* format_for_context called again and again on one page list              *)
(*                                                                         *)
(* fmt_arg is the scraped_data argument: up to two records [url, links],   *)
(* links a list of [url, m] as in SpecFormat.  A call is one step; of its  *)
(* output the header, the citation lines and the end marker are kept.      *)
(* seen_urls holds the value the local variable of the last call had when  *)
(* the call returned.                                                      *)
(***************************************************************************)
NumTwiceUrls == 2
MaxTwiceLinks == 1
MaxFormatCalls == 2

TwiceUrls == 0..(NumTwiceUrls - 1)

RECURSIVE TwiceLinkLists(_)
TwiceLinkLists(n) ==
    IF n = 0 THEN {<<>>}
    ELSE {<<>>} \cup
         {<<[url |-> u, m |-> b]>> \o rest :
             u \in TwiceUrls, b \in BOOLEAN, rest \in TwiceLinkLists(n - 1)}

TwiceRecords ==
    {[url |-> u, links |-> l] : u \in TwiceUrls, l \in TwiceLinkLists(MaxTwiceLinks)}

\* the page lists of up to two records
TwiceLists ==
    {<<>>} \cup {<<r>> : r \in TwiceRecords}
           \cup {<<r1, r2>> : r1 \in TwiceRecords, r2 \in TwiceRecords}

KeptSeen(old) == old
\* line 315: seen_urls = set()
FreshSeen(old) == {}

\* lines 351-358: relevant_links of one record
RECURSIVE RelevantLinksOf(_, _, _, _)
RelevantLinksOf(links, lseen, seen, acc) ==
    IF links = <<>> THEN acc
    ELSE IF LinkIsNew(Head(links).url, lseen, seen) /\ Head(links).m
         THEN RelevantLinksOf(Tail(links), lseen \cup {Head(links).url}, seen,
                              Append(acc, Head(links).url))
         ELSE RelevantLinksOf(Tail(links), lseen, seen, acc)

\* lines 321-371: the loop over the records: [out, seen]
RECURSIVE FormatRecords(_, _, _)
FormatRecords(list, seen, out) ==
    IF list = <<>> THEN [out |-> out, seen |-> seen]
    ELSE IF IsSeen(Head(list).url, seen)
         THEN FormatRecords(Tail(list), seen, out)
         ELSE LET seen1 == seen \cup {Head(list).url}
                  rel == FirstLinks(RelevantLinksOf(Head(list).links, {}, seen1, <<>>))
              IN  FormatRecords(Tail(list), seen1 \cup SeqRange(rel),
                     out \o <<[kind |-> "source", url |-> Head(list).url]>>
                         \o [i \in 1..Len(rel) |-> [kind |-> "related", url |-> rel[i]]])

\* lines 309-374: the output and the final seen_urls of a call that starts
\* with seen_urls = seen0
FormatPages(list, seen0) ==
    IF IsEmptyList(list) THEN [out |-> EmptyString, seen |-> seen0]
    ELSE LET r == FormatRecords(list, seen0,
                     <<[kind |-> "found", url |-> Len(list)]>>)
         IN  [out |-> Append(r.out, [kind |-> "end", url |-> Len(list)]),
              seen |-> r.seen]

TwiceInit ==
    /\ NoCache /\ NoCrawl /\ NoFormat
    /\ NoScore /\ NoCall /\ NoExtract /\ NoSite /\ NoLate
    /\ fmt_arg \in TwiceLists
    /\ fmt_out = <<>>

\* lines 309-374: one call format_for_context(scraped_data, query)
FormatCall ==
    /\ Len(fmt_out) < MaxFormatCalls
    /\ LET r == FormatPages(fmt_arg, FreshSeen(seen_urls)) IN
         /\ fmt_out' = Append(fmt_out, [out |-> r.out, arg |-> fmt_arg])
         /\ seen_urls' = r.seen
    /\ UNCHANGED <<cacheVars, thr, lateVars, crawlVars, scoreVars, call, domVars, siteVars,
                   fmt_arg, fmt_pc, data, link_urls_seen, relevant_links,
                   fmt_links, cited, fmt_in>>

TwiceNext == FormatCall

SpecFormatTwice == TwiceInit /\ [][TwiceNext]_vars

(***************************************************************************)
(* One page on its way through a crawl: the relevance test of              *)
(* find_relevant_urls on the text of the whole page, then                  *)
(* scrape_url_with_context (removal of the non-content elements,           *)
(* extraction, full text, score) and the collection of the record by       *)
(* scrape_for_query.                                                       *)
(*                                                                         *)
(* soup is the document as in SpecExtract, every element with the text it  *)
(* holds itself (a sequence of characters, len its length); both fetches   *)
(* of the page return the same document.  No text of the family holds a    *)
(* digit, so of the step patterns of _extract_steps only the one of the    *)
(* step words can match.  pg = [pc, relevant, returned]: pc is "crawl"     *)
(* (fetched by the discovery loop), "skipped" (not relevant), "pool" (a    *)
(* task of the pool), "scored", "done"; relevant = the URL was appended to *)
(* relevant_urls; returned = the record is in the list scrape_for_query    *)
(* returns.                                                                *)
(***************************************************************************)
MaxPageNodes == 2

\* a text of more than MinParagraphLen characters that holds "ba"
LongText == T_ba \o <<" ">> \o [i \in 1..MinParagraphLen |-> "x"]
T_next == <<"n", "e", "x", "t", " ", "b", "a">>

\* the elements the pages are made of
PageNodeKinds ==
    {[tag |-> "nav", text |-> <<>>], [tag |-> "div", text |-> <<>>],
     [tag |-> "div", text |-> T_ba], [tag |-> "div", text |-> T_next],
     [tag |-> "p", text |-> T_ba], [tag |-> "p", text |-> LongText],
     [tag |-> "h3", text |-> T_aba], [tag |-> "h1", text |-> T_b]}

\* the documents of up to n elements
RECURSIVE PageDocs(_)
PageDocs(n) ==
    IF n = 0 THEN {<<>>}
    ELSE LET prev == PageDocs(n - 1) IN
         prev \cup
         UNION {{Append(d, [tag |-> k.tag, text |-> k.text, len |-> Len(k.text),
                            parent |-> par, kept |-> TRUE]) :
                    k \in PageNodeKinds, par \in OpenParents(d)} :
                d \in {x \in prev : Len(x) = n - 1}}

\* clean_text, lines 26-32: runs of whitespace become one space, the ends are
\* stripped (every character of the texts is one that line 31 keeps)
CleanText(t) == Join(Split(t), <<" ">>)

\* element.get_text(): the strings of the element and of the elements of the
\* tree below it, in document order.  i = 0 is the document: soup.get_text()
GetText(s, i) ==
    Concat([j \in 1..Len(s) |->
              IF s[j].kept /\ (i = 0 \/ j = i \/ i \in Ancestors(s, j))
              THEN s[j].text ELSE <<>>])

\* word in text
Contains(t, w) == Count(t, w) > 0

\* lines 244, 259-260: any(word in page_text for word in query_words)
MatchesQuery(s, q) ==
    LET words == Split(LowerStr(q))
        page_text == LowerStr(GetText(s, 0))
    IN  \E i \in 1..Len(words) : Contains(page_text, words[i])

\* line 118: first|second|third|then|next|finally, case ignored
StepWords ==
    {<<"f", "i", "r", "s", "t">>, <<"s", "e", "c", "o", "n", "d">>,
     <<"t", "h", "i", "r", "d">>, <<"t", "h", "e", "n">>,
     <<"n", "e", "x", "t">>, <<"f", "i", "n", "a", "l", "l", "y">>}

\* lines 121-124: the cleaned texts of the li, p and div elements that match a
\* step pattern
StepsOf(s) ==
    LET els == SelectSeq([i \in 1..Len(s) |-> i],
                         LAMBDA i : s[i].kept /\ s[i].tag \in {"li", "p", "div"})
        hits == SelectSeq(els, LAMBDA i :
                    \E w \in StepWords : Contains(LowerStr(CleanText(GetText(s, i))), w))
    IN  [x \in 1..Len(hits) |-> CleanText(GetText(s, hits[x]))]

\* lines 36-108: the structured content, with the texts (the documents hold no
\* ul and no ol element)
ContentOf(s, st) ==
    [headings |-> [x \in 1..Len(st.headings) |->
                      [level |-> st.headings[x].level, order |-> st.headings[x].order,
                       text |-> CleanText(GetText(s, st.headings[x].node))]],
     paragraphs |-> [x \in 1..Len(st.paragraphs) |->
                        CleanText(GetText(s, st.paragraphs[x]))],
     lists |-> <<>>,
     steps |-> StepsOf(s)]

PageInit ==
    /\ NoCache /\ NoCrawl /\ NoFormat
    /\ NoTwice /\ NoCall /\ NoSite
    /\ soup \in PageDocs(MaxPageNodes)
    /\ ex_pc = "parsed"
    /\ structured = [headings |-> <<>>, paragraphs |-> <<>>]
    /\ content = NoContent
    /\ query \in QueryChoices
    /\ score = NotScored
    /\ adds = NoAdd
    /\ pg = [pc |-> "crawl", relevant |-> FALSE, returned |-> FALSE]
    /\ ctx = IdleContext /\ pace = NoPace /\ hv = NoHost /\ wc = NoWebsiteCache

\* find_relevant_urls, lines 255-261: the page is fetched and its whole text is
\* matched against the query words; scrape_for_query, lines 294-297: a task is
\* submitted for a relevant URL
PageMatch ==
    /\ pg.pc = "crawl"
    /\ pg' = IF MatchesQuery(soup, query)
             THEN [pg EXCEPT !.pc = "pool", !.relevant = TRUE]
             ELSE [pg EXCEPT !.pc = "skipped"]
    /\ UNCHANGED <<cacheVars, thr, crawlVars, fmtVars, twiceVars, scoreVars, call,
                   domVars, siteVars, ctx, pace, hv, wc>>

\* scrape_url_with_context, lines 149-156
PageStrip == pg.pc = "pool" /\ Decompose

\* line 166
PageExtract == pg.pc = "pool" /\ Extract

\* lines 169-179: full_text and relevance_score of the record
PageScore ==
    /\ pg.pc = "pool" /\ ex_pc = "extracted"
    /\ content' = ContentOf(soup, structured)
    /\ score' = CalculateRelevance(ContentOf(soup, structured), query)
    /\ pg' = [pg EXCEPT !.pc = "scored"]
    /\ UNCHANGED <<cacheVars, thr, crawlVars, fmtVars, twiceVars, call,
                   domVars, siteVars, query, adds, ctx, pace, hv, wc>>

\* scrape_for_query, lines 299-307: if result: scraped_data.append(result); the
\* record is a dictionary with items, which is true whatever its score
PageCollect ==
    /\ pg.pc = "scored"
    /\ pg' = [pg EXCEPT !.pc = "done", !.returned = TRUE]
    /\ UNCHANGED <<cacheVars, thr, crawlVars, fmtVars, twiceVars, scoreVars, call,
                   domVars, siteVars, ctx, pace, hv, wc>>

PageNext ==
    \/ PageMatch
    \/ PageStrip
    \/ PageExtract
    \/ PageScore
    \/ PageCollect

SpecPage == PageInit /\ [][PageNext]_vars

(***************************************************************************)
(* general_web_assistant.get_context_for_any_website, one caller at a time *)
(*                                                                         *)
(* ctx = [pc, key, specific, cached_data, scraped_data, handed, formatted, *)
(* crawled, n]: the position in the function, cache_key, whether the URL   *)
(* of the query is a page other than the base URL (line 122), the locals,  *)
(* the list handed to format_for_context, whether format_for_context was   *)
(* called, whether the scraper fetched anything, and the number of calls   *)
(* made so far.  A record is [url, score]; scrape_for_query returns any    *)
(* list of up to MaxCtxPages records, sorted as line 305 sorts it.         *)
(***************************************************************************)
MaxCtxPages == 2
MaxCtxCalls == 2

\* the records of the pages scrape_for_query finds (the page of URL 0) and of
\* the specific page (URL 1)
CtxRecords == [url : {BaseUrl}, score : Scores]

RECURSIVE ListsUpTo(_, _)
ListsUpTo(S, n) ==
    IF n = 0 THEN {<<>>}
    ELSE LET prev == ListsUpTo(S, n - 1) IN
         prev \cup {Append(l, r) : l \in {x \in prev : Len(x) = n - 1}, r \in S}

\* what scrape_for_query can return: scraped_data in any completion order,
\* sorted by line 305
ScrapeForQueryResults == {SortByRelevance(l) : l \in ListsUpTo(CtxRecords, MaxCtxPages)}

ContextInit ==
    /\ CacheInit
    /\ thr = <<>>
    /\ NoCrawl /\ NoFormat
    /\ NoTwice /\ NoScore /\ NoCall /\ NoExtract /\ NoSite
    /\ pg = IdlePage /\ pace = NoPace /\ hv = NoHost /\ wc = NoWebsiteCache
    /\ ctx = IdleContext

\* lines 87-90: the query names no URL: ("", query) is returned
ContextNoUrl ==
    /\ ctx.pc = "idle" /\ ctx.n < MaxCtxCalls
    /\ ctx' = [IdleContext EXCEPT !.pc = "returned", !.n = ctx.n + 1]
    /\ UNCHANGED <<cacheVars, thr, crawlVars, fmtVars, twiceVars, scoreVars, call,
                   domVars, siteVars, pg, pace, hv, wc>>

\* lines 87-109: the URL, the base URL and the scraping query are worked out,
\* cache_key is built and scraping_cache.get(cache_key) is called
ContextGet ==
    /\ ctx.pc = "idle" /\ ctx.n < MaxCtxCalls
    /\ \E k \in Keys, sp \in BOOLEAN :
         /\ ctx' = [IdleContext EXCEPT !.pc = "got", !.key = k, !.specific = sp,
                       !.n = ctx.n + 1,
                       !.cached_data = GetResult(cache, k, now, ttl)]
         /\ cache' = GetCache(cache, k, now, ttl)
    /\ UNCHANGED <<ttl, now, lastSet, got, thr, crawlVars, fmtVars, twiceVars,
                   scoreVars, call, domVars, siteVars, pg, pace, hv, wc>>

\* lines 111-114: the cached list is handed to format_for_context
ContextHit ==
    /\ ctx.pc = "got" /\ IsTruthy(ctx.cached_data)
    /\ ctx' = [ctx EXCEPT !.pc = "returned", !.handed = ctx.cached_data.data,
                          !.formatted = TRUE]
    /\ UNCHANGED <<cacheVars, thr, crawlVars, fmtVars, twiceVars, scoreVars, call,
                   domVars, siteVars, pg, pace, hv, wc>>

\* lines 122-126, 130-131: the specific page is scraped first; with a record,
\* scraped_data = [specific_data]; with None, the site is scraped for 5 pages
ContextSpecific ==
    /\ ctx.pc = "got" /\ ~IsTruthy(ctx.cached_data) /\ ctx.specific
    /\ \/ \E sc \in Scores :
            ctx' = [ctx EXCEPT !.pc = "related", !.crawled = TRUE,
                               !.scraped_data = <<[url |-> 1, score |-> sc]>>]
       \/ \E l \in ScrapeForQueryResults :
            ctx' = [ctx EXCEPT !.pc = "scraped", !.crawled = TRUE,
                               !.scraped_data = l]
    /\ UNCHANGED <<cacheVars, thr, crawlVars, fmtVars, twiceVars, scoreVars, call,
                   domVars, siteVars, pg, pace, hv, wc>>

\* lines 128-129: related = scrape_for_query(scraping_query, max_pages=3);
\* scraped_data.extend(related)
ContextRelated ==
    /\ ctx.pc = "related"
    /\ \E l \in ScrapeForQueryResults :
         ctx' = [ctx EXCEPT !.pc = "scraped", !.scraped_data = @ \o l]
    /\ UNCHANGED <<cacheVars, thr, crawlVars, fmtVars, twiceVars, scoreVars, call,
                   domVars, siteVars, pg, pace, hv, wc>>

\* lines 132-133: the URL is the base URL: scrape_for_query(scraping_query,
\* max_pages=5)
ContextScrape ==
    /\ ctx.pc = "got" /\ ~IsTruthy(ctx.cached_data) /\ ~ctx.specific
    /\ \E l \in ScrapeForQueryResults :
         ctx' = [ctx EXCEPT !.pc = "scraped", !.crawled = TRUE, !.scraped_data = l]
    /\ UNCHANGED <<cacheVars, thr, crawlVars, fmtVars, twiceVars, scoreVars, call,
                   domVars, siteVars, pg, pace, hv, wc>>

\* line 136: scraping_cache.set(cache_key, scraped_data)
ContextSet ==
    /\ ctx.pc = "scraped"
    /\ cache' = SetCache(cache, ctx.key, ctx.scraped_data, now)
    /\ ctx' = [ctx EXCEPT !.pc = "set"]
    /\ UNCHANGED <<ttl, now, lastSet, got, thr, crawlVars, fmtVars, twiceVars,
                   scoreVars, call, domVars, siteVars, pg, pace, hv, wc>>

\* line 138: formatted = scraper.format_for_context(scraped_data, scraping_query)
ContextFormat ==
    /\ ctx.pc = "set"
    /\ ctx' = [ctx EXCEPT !.pc = "returned", !.handed = ctx.scraped_data,
                          !.formatted = TRUE]
    /\ UNCHANGED <<cacheVars, thr, crawlVars, fmtVars, twiceVars, scoreVars, call,
                   domVars, siteVars, pg, pace, hv, wc>>

\* lines 145-158: the guidance is appended and the caller has the result
ContextDone ==
    /\ ctx.pc = "returned"
    /\ ctx' = [ctx EXCEPT !.pc = "idle"]
    /\ UNCHANGED <<cacheVars, thr, crawlVars, fmtVars, twiceVars, scoreVars, call,
                   domVars, siteVars, pg, pace, hv, wc>>

ContextNext ==
    \/ Tick
    \/ ContextNoUrl
    \/ ContextGet
    \/ ContextHit
    \/ ContextSpecific
    \/ ContextRelated
    \/ ContextScrape
    \/ ContextSet
    \/ ContextFormat
    \/ ContextDone

SpecContext == ContextInit /\ [][ContextNext]_vars

(***************************************************************************)
(* DynamicWebScraper._is_valid_url                                         *)
(*                                                                         *)
(* A host (the netloc of a URL) is the sequence of its labels, <<"www",    *)
(* "x", "com">> for www.x.com.  hv = [base, link, done, valid]: the host of *)
(* self.base_url, the host of the link, whether _is_valid_url was called   *)
(* and what it returned.                                                   *)
(***************************************************************************)
MaxLabels == 3

Labels == {"www", "x", "com"}
Hosts == UNION {[1..n -> Labels] : n \in 1..MaxLabels}

\* f"www.{netloc}"
WithWww(h) == <<"www">> \o h

\* lines 139-141: parsed.netloc == base_parsed.netloc or
\*                parsed.netloc == f"www.{base_parsed.netloc}"
IsValidUrl(link, base) == link = base \/ link = WithWww(base)

\* the host without a leading "www."
StripWww(h) == IF Len(h) > 1 /\ Head(h) = "www" THEN Tail(h) ELSE h

HostInit ==
    /\ NoCache /\ NoCrawl /\ NoFormat
    /\ NoTwice /\ NoScore /\ NoCall /\ NoExtract /\ NoSite
    /\ pg = IdlePage /\ ctx = IdleContext /\ pace = NoPace /\ wc = NoWebsiteCache
    /\ \E b \in Hosts, l \in Hosts : hv = [base |-> b, link |-> l, done |-> FALSE, valid |-> FALSE]

\* lines 269 and 81: self._is_valid_url(href)
CheckUrl ==
    /\ ~hv.done
    /\ hv' = [hv EXCEPT !.done = TRUE, !.valid = IsValidUrl(hv.link, hv.base)]
    /\ UNCHANGED <<cacheVars, thr, crawlVars, fmtVars, twiceVars, scoreVars, call,
                   domVars, siteVars, pg, ctx, pace, wc>>

HostNext == CheckUrl

SpecHost == HostInit /\ [][HostNext]_vars

(***************************************************************************)
(* website_cache.WebsiteCache and the threads calling it                   *)
(*                                                                         *)
(* wc = [global_cache, global_cache_timestamp, lock, cache_duration, th,   *)
(* calls], calls the number of calls made so far.                          *)
(* A snapshot is [some, pages]: some = FALSE is None, pages the entries of *)
(* the list, one for each page scrape_website kept.  lock is "free" or the *)
(* thread inside `with self.lock`.  th[t] is the thread: pc is "idle",     *)
(* "wait" (at the with statement), "locked", "scraping" (inside            *)
(* scrape_everest_website) or "done"; op the method called; current_time,  *)
(* fetched and kept the locals of the call and of its scrape; ret what the *)
(* call returned.  History: scraped = the call started a scrape; outcome = *)
(* how its refresh ended; prev and after = the snapshot and the timestamp  *)
(* when the refresh began and when the call returned; gift = the snapshot  *)
(* another thread's scrape stored while this call waited for the lock and  *)
(* that was not invalidated since; fresh = that the snapshot was not       *)
(* expired when the call read the clock at line 32.                        *)
(* A refresh scrape attempts SnapshotFetches pages; extract_page_content   *)
(* turns a failed fetch into None (website_scraper.py lines 112-114), so   *)
(* scrape_website returns the pages that loaded, none if all failed.       *)
(***************************************************************************)
MaxDuration == 1
SnapshotFetches == 1
MaxSiteCalls == 3
MaxSiteTime == 2

NoneSnapshot == [some |-> FALSE, pages |-> <<>>]
ListOf(pages) == [some |-> TRUE, pages |-> pages]

NoGift == [set |-> FALSE, data |-> NoneSnapshot]
NoPrev == [global_cache |-> NoneSnapshot, global_cache_timestamp |-> 0]

IdleSiteThread ==
    [pc |-> "idle", op |-> "none", current_time |-> 0, fetched |-> 0,
     kept |-> <<>>, ret |-> NoneSnapshot, scraped |-> FALSE, outcome |-> "none",
     prev |-> NoPrev, after |-> NoPrev, gift |-> NoGift, fresh |-> FALSE]

\* line 23: time.time() - timestamp > self.cache_duration
IsCacheExpired(ts, t, d) == t - ts > d

\* `if self.global_cache`: None and the empty list are false
IsTruthySnapshot(c) == c.some /\ c.pages # <<>>

LockAlwaysFree(l) == TRUE
\* with self.lock: the thread goes on when no thread holds the lock
LockIsFree(l) == l = "free"

\* the snapshot and its timestamp
Stored(w) ==
    [global_cache |-> w.global_cache,
     global_cache_timestamp |-> w.global_cache_timestamp]

\* lines 15-19, 70: website_cache = WebsiteCache(cache_duration)
WebsiteInit ==
    /\ NoCache /\ NoCrawl /\ NoFormat
    /\ NoTwice /\ NoScore /\ NoCall /\ NoExtract /\ NoSite
    /\ pg = IdlePage /\ ctx = IdleContext /\ pace = NoPace /\ hv = NoHost
    /\ \E d \in 0..MaxDuration :
         wc = [global_cache |-> NoneSnapshot, global_cache_timestamp |-> 0,
               lock |-> "free", cache_duration |-> d,
               th |-> [t \in Threads |-> IdleSiteThread], calls |-> 0]

\* what no step of a thread on the WebsiteCache changes
notWc == <<cache, ttl, now, lastSet, got, thr, crawlVars, fmtVars, twiceVars,
           scoreVars, call, domVars, siteVars, pg, ctx, pace, hv>>

\* time.time() advances
SiteTick ==
    /\ now < MaxSiteTime
    /\ now' = now + 1
    /\ UNCHANGED <<cache, ttl, lastSet, got, thr, crawlVars, fmtVars, restVars>>

\* a thread calls get_website_content_for_session, invalidate_cache or
\* get_cache_stats and reaches the with statement (lines 27, 55, 62)
SiteCall(t) ==
    /\ wc.th[t].pc = "idle" /\ wc.calls < MaxSiteCalls
    /\ \E op \in {"get", "invalidate", "stats"} :
         wc' = [wc EXCEPT !.th[t] = [IdleSiteThread EXCEPT !.pc = "wait", !.op = op],
                          !.calls = @ + 1]
    /\ UNCHANGED notWc

\* with self.lock
SiteAcquire(t) ==
    /\ wc.th[t].pc = "wait"
    /\ LockIsFree(wc.lock)
    /\ wc' = [wc EXCEPT !.lock = t, !.th[t].pc = "locked"]
    /\ UNCHANGED notWc

\* lines 28-34: the snapshot is there and not expired: it is returned
SiteGetHit(t) ==
    /\ wc.th[t].pc = "locked" /\ wc.th[t].op = "get"
    /\ wc.global_cache.some
    /\ ~IsCacheExpired(wc.global_cache_timestamp, now, wc.cache_duration)
    /\ wc' = [wc EXCEPT !.lock = "free",
                        !.th[t].pc = "done", !.th[t].current_time = now,
                        !.th[t].ret = wc.global_cache, !.th[t].outcome = "hit",
                        !.th[t].fresh = TRUE,
                        !.th[t].after = Stored(wc)]
    /\ UNCHANGED notWc

\* lines 28-39: no snapshot or an expired one: scrape_everest_website is called
SiteGetMiss(t) ==
    /\ wc.th[t].pc = "locked" /\ wc.th[t].op = "get"
    /\ ~(wc.global_cache.some
         /\ ~IsCacheExpired(wc.global_cache_timestamp, now, wc.cache_duration))
    /\ wc' = [wc EXCEPT !.th[t].pc = "scraping", !.th[t].current_time = now,
                        !.th[t].scraped = TRUE, !.th[t].prev = Stored(wc),
                        !.th[t].fresh =
                            ~IsCacheExpired(wc.global_cache_timestamp, now,
                                            wc.cache_duration)]
    /\ UNCHANGED notWc

\* website_scraper.py lines 136-138, 103-114: a page of the refresh scrape is
\* fetched; it loads and is kept, or the fetch fails and None is dropped
SiteScrapePage(t) ==
    /\ wc.th[t].pc = "scraping" /\ wc.th[t].fetched < SnapshotFetches
    /\ \E ok \in BOOLEAN :
         wc' = [wc EXCEPT !.th[t].fetched = @ + 1,
                          !.th[t].kept = IF ok THEN Append(@, wc.th[t].fetched + 1)
                                         ELSE @]
    /\ UNCHANGED notWc

\* the snapshot a thread waiting at the with statement finds stored
Gifts(w, t, c) ==
    [u \in Threads |->
        IF u # t /\ w.th[u].pc = "wait"
        THEN [w.th[u] EXCEPT !.gift = [set |-> c.some, data |-> c]]
        ELSE w.th[u]]

\* website_scraper.py lines 162, 200-204 and website_cache.py lines 39-46:
\* scrape_everest_website returns the entries of the pages kept; they become
\* the snapshot, stamped with the time read at line 28, and are returned
SiteScrapeReturns(t) ==
    /\ wc.th[t].pc = "scraping" /\ wc.th[t].fetched = SnapshotFetches
    /\ LET website_content == ListOf(wc.th[t].kept)
           w == [wc EXCEPT !.global_cache = website_content,
                           !.global_cache_timestamp = wc.th[t].current_time,
                           !.lock = IF wc.lock = t THEN "free" ELSE @]
       IN  wc' = [w EXCEPT !.th = [Gifts(w, t, website_content) EXCEPT
                      ![t] = [wc.th[t] EXCEPT
                                !.pc = "done", !.ret = website_content,
                                !.outcome = IF wc.th[t].kept = <<>>
                                            THEN "all_failed" ELSE "ok",
                                !.after = Stored(w)]]]
    /\ UNCHANGED notWc

\* lines 48-51: scrape_everest_website raises: the snapshot is returned as it
\* is, expired or not, or the empty list
SiteScrapeRaises(t) ==
    /\ wc.th[t].pc = "scraping"
    /\ wc' = [wc EXCEPT !.lock = IF wc.lock = t THEN "free" ELSE @,
                        !.th[t].pc = "done",
                        !.th[t].ret = IF IsTruthySnapshot(wc.global_cache)
                                      THEN wc.global_cache ELSE ListOf(<<>>),
                        !.th[t].outcome = "raised",
                        !.th[t].after = Stored(wc)]
    /\ UNCHANGED notWc

\* lines 53-58: invalidate_cache
SiteInvalidate(t) ==
    /\ wc.th[t].pc = "locked" /\ wc.th[t].op = "invalidate"
    /\ LET w == [wc EXCEPT !.global_cache = NoneSnapshot,
                           !.global_cache_timestamp = 0,
                           !.lock = "free"]
       IN  wc' = [w EXCEPT !.th = [Gifts(w, t, NoneSnapshot) EXCEPT
                      ![t] = [wc.th[t] EXCEPT !.pc = "done"]]]
    /\ UNCHANGED notWc

\* lines 60-67: get_cache_stats reads the snapshot and the clock
SiteStats(t) ==
    /\ wc.th[t].pc = "locked" /\ wc.th[t].op = "stats"
    /\ wc' = [wc EXCEPT !.lock = "free", !.th[t].pc = "done"]
    /\ UNCHANGED notWc

\* the caller has the result; the locals of the call are dropped
SiteCallDone(t) ==
    /\ wc.th[t].pc = "done"
    /\ wc' = [wc EXCEPT !.th[t] = IdleSiteThread]
    /\ UNCHANGED notWc

WebsiteNext ==
    \/ SiteTick
    \/ \E t \in Threads : SiteCall(t)
    \/ \E t \in Threads : SiteAcquire(t)
    \/ \E t \in Threads : SiteGetHit(t)
    \/ \E t \in Threads : SiteGetMiss(t)
    \/ \E t \in Threads : SiteScrapePage(t)
    \/ \E t \in Threads : SiteScrapeReturns(t)
    \/ \E t \in Threads : SiteScrapeRaises(t)
    \/ \E t \in Threads : SiteInvalidate(t)
    \/ \E t \in Threads : SiteStats(t)
    \/ \E t \in Threads : SiteCallDone(t)

SpecSite == WebsiteInit /\ [][WebsiteNext]_vars

(***************************************************************************)
(* C4: for every maxDepth d and maxPages p, one crawl (discovery plus the  *)
(* final fetch pass) issues a fetch for at most p pages in total.  Every   *)
(* URL in visited was fetched once by the discovery loop and every started *)
(* pool task issued one fetch.                                             *)
(***************************************************************************)
C4_AtMostPFetchesInTotal ==
    phase \in {"pool", "done"} => Cardinality(visited) + started <= max_pages

(***************************************************************************)
(* C5: in find_relevant_urls, for every max_depth d >= 0, every            *)
(* (url, depth) entry that is inserted into or popped from the frontier    *)
(* has depth <= d.                                                         *)
(***************************************************************************)
C5_FrontierDepthBounded ==
    /\ \A i \in 1..Len(to_visit) : to_visit[i].depth <= max_depth
    /\ deepest <= max_depth

\* a page at depth d = 2 was fetched while entries of depth d were queued
C5_Witness ==
    /\ max_depth = 2 /\ deepest = 2
    /\ \E i \in 1..Len(to_visit) : to_visit[i].depth = 2

(***************************************************************************)
(* C6: when a page fetched at depth < maxDepth exposes two unvisited       *)
(* links, one with a query word and one without, the crawl                 *)
(* fetches the query-matching link before the non-matching one, whatever   *)
(* their order on the page: whenever the non-matching URL has been         *)
(* fetched, the matching one has been too.                                 *)
(***************************************************************************)
C6_PriorityLinkFetchedFirst ==
    \A p \in pairs :
        p.kind = "mix" => (p.b \in visited => p.a \in visited)

C8_EachUrlCitedAtMostOnce ==
    /\ \A u \in FmtUrls : TimesCited(u) <= 1
    /\ \A i \in 1..Len(fmt_in) : TimesCited(fmt_in[i]) = 1

\* a digest is complete in which two records shared a URL cited as a source
\* and a later record had the URL of an earlier page's related link
C8_Witness ==
    /\ fmt_pc = "end"
    /\ \E i \in 1..Len(fmt_in), j \in 1..Len(fmt_in) :
          /\ i < j /\ fmt_in[i] = fmt_in[j]
          /\ \E k \in 1..Len(cited) :
                cited[k] = [kind |-> "source", url |-> fmt_in[i]]
    /\ \E k \in 1..Len(cited), i \in 1..Len(fmt_in) :
          cited[k] = [kind |-> "related", url |-> fmt_in[i]]

\* a page had more relevant links than the three that are cited
C8_LinksCut ==
    fmt_pc = "links" /\ Len(relevant_links) > MaxRelatedLinks

(***************************************************************************)
(* C9: after all fetch-pool workers have finished, the returned list is    *)
(* sorted by relevance_score in non-increasing order, for every completion *)
(* order of the workers.                                                   *)
(***************************************************************************)
C9_ResultSortedByScore ==
    phase = "done" =>
        /\ Len(result) = Len(scraped_data)
        /\ \A i \in 1..Len(result), j \in 1..Len(result) :
              i < j => result[i].score >= result[j].score

\* the workers completed in an order that was not the rank order
C9_Witness ==
    /\ phase = "done" /\ Len(result) >= 2
    /\ \E i \in 1..Len(scraped_data), j \in 1..Len(scraped_data) :
          i < j /\ scraped_data[i].score < scraped_data[j].score

(***************************************************************************)
(* C10: no error from a single page aborts the crawl: for every            *)
(* combination of per-page failures find_relevant_urls and                 *)
(* scrape_for_query do not raise, and the discovery loop stops only when   *)
(* the frontier is exhausted or the cap on relevant pages is reached.      *)
(***************************************************************************)
C10_NoPageErrorAbortsCrawl ==
    /\ phase \in {"discover", "pool", "done"}
    /\ phase \in {"pool", "done"} =>
          (to_visit = <<>> \/ Len(relevant_urls) >= MaxRelevant)

\* a crawl ran to its end and returned pages although a discovery fetch and a
\* pool task had failed
C10_Witness ==
    /\ phase = "done" /\ failed # {} /\ dropped # {} /\ result # <<>>

\* the discovery loop stopped on the cap with entries left in the frontier
C10_CapReached ==
    /\ phase = "done" /\ to_visit # <<>> /\ Len(relevant_urls) = MaxRelevant

(***************************************************************************)
(* C11: on every finite site graph, for every max_depth and every pattern  *)
(* of fetch outcomes, a crawl by find_relevant_urls or by scrape_website   *)
(* eventually terminates, and it does so with the frontier exhausted, the  *)
(* result cap reached, or only entries beyond the depth cap left.          *)
(***************************************************************************)
CrawlOver ==
    /\ phase # "discover"
    /\ phase = "found" =>
          \/ to_visit = <<>>
          \/ Len(relevant_urls) >= MaxRelevant
          \/ \A i \in 1..Len(to_visit) : to_visit[i].depth > max_depth
    /\ site_pc # "loop"
    /\ site_fetches # <<>> =>
          (urls_to_visit = <<>> \/ Len(site_data) >= site_max)

C11_CrawlTerminates == <>CrawlOver

\* find_relevant_urls returned on an empty frontier after a fetch had failed
\* and two URLs had been fetched
C11_Witness ==
    /\ phase = "found" /\ failed # {} /\ Cardinality(visited) >= 2
    /\ to_visit = <<>>

\* find_relevant_urls returned on the cap of 10 relevant URLs
C11_CapReached ==
    /\ phase = "found" /\ to_visit # <<>> /\ Len(relevant_urls) = MaxRelevant

\* scrape_website returned on max_pages with URLs left in the queue
C11_SiteCapReached ==
    /\ site_pc = "done" /\ urls_to_visit # <<>> /\ Len(site_data) = site_max
    /\ site_max > 0

(***************************************************************************)
(* C13 as claimed: for a fixed page and a fixed non-empty query, adding    *)
(* further occurrences of a query term to the page's text (in any content  *)
(* zone: heading, paragraph, list item or step) never decreases the score  *)
(* computed by _calculate_relevance.                                       *)
(***************************************************************************)
C13_AddingNeverLowersScore ==
    adds.kind # "none" => score >= adds.before

(***************************************************************************)
(* C13 as amended: for a fixed page and a fixed non-empty query, adding a  *)
(* further occurrence of a query term as a new element, or at the start    *)
(* or the end of an element's text or next to a space in it (in any        *)
(* content zone), never decreases the score; an occurrence put inside a    *)
(* word can destroy an occurrence of another query term.                   *)
(***************************************************************************)
C13_AddingWordsNeverLowersScore ==
    adds.kind \in {"word", "element"} => score >= adds.before

\* a word was added next to the text of an element and the score rose by more
\* than one: the added word holds another query word
C13_Witness ==
    /\ adds.kind = "word" /\ score > adds.before + 1

\* an occurrence put inside a word lowered the score
C13_SpliceLowersScore ==
    /\ adds.kind = "splice" /\ score < adds.before

(***************************************************************************)
(* C14: when a crawl produces zero pages, format_for_context returns the   *)
(* empty string for the empty page list and get_dynamic_content_for_query  *)
(* returns that empty result to its caller (the call runs to its return).  *)
(***************************************************************************)
C14_ZeroPagesGiveEmptyString ==
    (call.pc = "returned" /\ call.crawled /\ call.scraped_data = <<>>)
        => call.out = EmptyString

\* a call whose crawl gave no page has returned "", and the empty list is in
\* the cache
C14_Witness ==
    /\ call.pc = "returned" /\ call.crawled /\ call.scraped_data = <<>>
    /\ call.out = EmptyString
    /\ cache[call.key].present /\ cache[call.key].data = <<>>

(***************************************************************************)
(* C15: _calculate_relevance(page, "") returns 1.0 for every page,         *)
(* whatever its content, a page with no headings, paragraphs, lists or     *)
(* steps included.                                                         *)
(***************************************************************************)
C15_EmptyQueryScoresOne ==
    (query = <<>> /\ score # NotScored) => score = NeutralScore

\* the empty page and a page with all four zones were scored for ""
C15_Witness ==
    /\ query = <<>> /\ score = NeutralScore /\ content = NoContent
C15_FullPageWitness ==
    /\ query = <<>> /\ score = NeutralScore
    /\ content.headings # <<>> /\ content.paragraphs # <<>>
    /\ content.lists # <<>> /\ content.steps # <<>>

\* a query of spaces only is not the empty query: it scores 0.0
C15_BlankQueryScoresZero ==
    /\ query = <<" ">> /\ score = 0

(***************************************************************************)
(* C16: a page whose only content-bearing elements (h1-h4, p) lie inside   *)
(* nav, footer, header, script or style elements yields a record with      *)
(* empty paragraphs and empty headings.                                    *)
(***************************************************************************)
C16_StrippedContentYieldsNothing ==
    (ex_pc = "extracted" /\ ContentOnlyInStripped)
        => (structured.headings = <<>> /\ structured.paragraphs = <<>>)

\* the record of a page is empty whose long paragraph was inside an element
\* inside a nav element
C16_Witness ==
    /\ ex_pc = "extracted" /\ ContentOnlyInStripped
    /\ structured.headings = <<>> /\ structured.paragraphs = <<>>
    /\ \E i \in 1..Len(soup) :
          /\ soup[i].tag = "p" /\ soup[i].len > MinParagraphLen
          /\ soup[i].parent # 0 /\ soup[soup[i].parent].tag = "div"
          /\ soup[soup[i].parent].parent # 0
          /\ soup[soup[soup[i].parent].parent].tag = "nav"

\* a page with a heading and a long paragraph outside those elements has both
\* in its record
C16_ContentKept ==
    /\ ex_pc = "extracted"
    /\ structured.headings # <<>> /\ structured.paragraphs # <<>>

C18_EachUrlFetchedAtMostOnce ==
    /\ \A u \in DOMAIN fetches : fetches[u] = 1 /\ u \in visited
    /\ \A u \in DOMAIN site_fetches : site_fetches[u] = 1 /\ u \in visited_urls

\* a URL whose fetch failed is in the frontier once more
C18_Witness ==
    /\ phase = "discover"
    /\ \E i \in 1..Len(to_visit) : to_visit[i].url \in failed

\* scrape_website meets a visited URL in its queue
C18_SiteWitness ==
    /\ site_pc = "loop"
    /\ \E i \in 1..Len(urls_to_visit) : urls_to_visit[i] \in visited_urls

(***************************************************************************)
(* C19: in every reachable state of a crawl the frontier holds no URL more *)
(* than once (to_visit of find_relevant_urls, urls_to_visit of             *)
(* scrape_website).  The statement as claimed; find_relevant_urls tests    *)
(* only `href not in visited` and scrape_website tests the queue as it was *)
(* before the page's links were appended.                                  *)
(***************************************************************************)
C19_FrontierHoldsNoUrlTwice ==
    /\ \A i \in 1..Len(to_visit), j \in 1..Len(to_visit) :
          to_visit[i].url = to_visit[j].url => i = j
    /\ \A i \in 1..Len(urls_to_visit), j \in 1..Len(urls_to_visit) :
          urls_to_visit[i] = urls_to_visit[j] => i = j

\* each of the two crawlers reaches a frontier with a URL queued twice
C19_DuplicateInToVisit ==
    \E i \in 1..Len(to_visit), j \in 1..Len(to_visit) :
        i # j /\ to_visit[i].url = to_visit[j].url
C19_DuplicateInUrlsToVisit ==
    \E i \in 1..Len(urls_to_visit), j \in 1..Len(urls_to_visit) :
        i # j /\ urls_to_visit[i] = urls_to_visit[j]

(***************************************************************************)
(* C20: a fetch that fails during discovery (timeout, network error or     *)
(* HTTP status >= 400) changes nothing but visited: the URL is not added   *)
(* to relevant_urls and no link of its response body is added to the       *)
(* frontier.  The statement as claimed; a response with an error status    *)
(* is processed like any page.                                             *)
(***************************************************************************)
C20_FailedFetchOnlyMarksVisited ==
    /\ \A u \in failed : u \in visited /\ u \notin SeqRange(relevant_urls)
    /\ error_links = {}

\* an error response was taken as relevant; links of an error response were
\* queued
C20_ErrorPageRelevant == \E u \in failed : u \in SeqRange(relevant_urls)
C20_ErrorLinksQueued == error_links # {}

(***************************************************************************)
(* C21: a fresh crawl is started only on a cache miss: when the cache      *)
(* holds an unexpired entry for the key, whatever value was stored (the    *)
(* empty page list included), the digest is built from the cached value    *)
(* and scrape_for_query is not called.  The statement as claimed; the      *)
(* test of line 415 takes a cached empty list for a miss.                  *)
(***************************************************************************)
C21_CrawlOnlyOnMiss ==
    /\ call.crawled => ~call.cached_data.hit
    /\ (call.pc = "returned" /\ call.cached_data.hit)
          => call.out = FormatForContext(call.cached_data.data)

\* get returned an unexpired empty page list and the site was crawled again
C21_CrawlOnCachedEmptyList ==
    /\ call.crawled /\ call.cached_data.hit /\ call.cached_data.data = <<>>

\* get returned an unexpired non-empty list: it is formatted, nothing is crawled
C21_HitServedFromCache ==
    /\ call.pc = "returned" /\ call.cached_data.hit /\ ~call.crawled
    /\ call.out = FormatForContext(call.cached_data.data)

(***************************************************************************)
(* C22: for a non-empty query, every page in the list a crawl returns      *)
(* holds a query term in its full text and has relevance_score >= 1; no    *)
(* page with score 0 is in the result.  The statement as claimed;          *)
(* relevance is decided on the text of the whole page, the score on the    *)
(* extracted content.                                                      *)
(***************************************************************************)
C22_ReturnedPagesScoreAtLeastOne ==
    (pg.returned /\ query # <<>>) =>
        /\ score >= 1
        /\ \E w \in QueryWords(query) : Contains(LowerStr(BuildFullText(content)), w)

\* a page whose only occurrence of the query term is the text of a div element
\* is returned with score 0
C22_ZeroScoreReturned ==
    /\ pg.returned /\ query = T_ba /\ score = 0
    /\ Len(soup) = 1 /\ soup[1].tag = "div" /\ soup[1].text = T_ba

\* a page with the query term in a long paragraph is returned with score >= 1
C22_MatchingPageReturned ==
    /\ pg.returned /\ query = T_ba /\ score >= 1
    /\ content.paragraphs # <<>>

(***************************************************************************)
(* C25: heading capture preserves document order through the order field:  *)
(* for every page, the captured headings sorted by (order, level) are in   *)
(* the order in which they appear in the document, also when a heading of  *)
(* a lower level (h3) precedes one of a higher level (h1).  The statement  *)
(* as claimed; order is the index of the tag in the list of line 46.       *)
(***************************************************************************)
C25_SortedHeadingsInDocumentOrder ==
    ex_pc = "extracted" =>
        LET hs == SortHeadings(<<>>, structured.headings) IN
        \A x, y \in 1..Len(hs) : x < y => hs[x].node < hs[y].node

\* the document is an h3 followed by an h1; sorted, the h1 comes first, in the
\* full text as well
C25_LevelOrderNotDocumentOrder ==
    /\ pg.pc = "scored"
    /\ Len(soup) = 2 /\ soup[1].tag = "h3" /\ soup[2].tag = "h1"
    /\ soup[2].parent = 0
    /\ LET hs == SortHeadings(<<>>, structured.headings) IN
         Len(hs) = 2 /\ hs[1].node = 2 /\ hs[2].node = 1
    /\ BuildFullText(content) = T_b \o <<"\n">> \o T_aba

\* the order field of every captured heading is its level less one
C25_OrderIsLevelIndex ==
    \A x \in 1..Len(structured.headings) :
        structured.headings[x].order = structured.headings[x].level - 1

(***************************************************************************)
(* C23: on every orchestration path (query with a base URL, query with a   *)
(* specific page URL followed by related pages, cache hit) the page list   *)
(* handed to format_for_context and the list stored in the cache are       *)
(* sorted by relevance_score in non-increasing order.  The statement as    *)
(* claimed; the specific page is put in front of the related pages         *)
(* whatever its score.                                                     *)
(***************************************************************************)
C23_HandedListSortedByScore ==
    /\ \A i, j \in 1..Len(ctx.handed) :
          i < j => ctx.handed[i].score >= ctx.handed[j].score
    /\ \A k \in Keys : \A i, j \in 1..Len(cache[k].data) :
          i < j => cache[k].data[i].score >= cache[k].data[j].score

\* the specific page scored lower than a related page behind it in the list
\* handed to format_for_context by the call that scraped them
C23_SpecificPageOutOfRank ==
    /\ ctx.pc = "returned" /\ ctx.formatted /\ ctx.specific /\ ctx.crawled
    /\ Len(ctx.handed) >= 2
    /\ ctx.handed[1].score < ctx.handed[2].score

\* a later call is served that list from the cache
C23_UnsortedListFromCache ==
    /\ ctx.pc = "returned" /\ ctx.formatted /\ ~ctx.crawled
    /\ Len(ctx.handed) >= 2
    /\ ctx.handed[1].score < ctx.handed[2].score

\* with the base URL the list handed over is the sorted one scrape_for_query
\* returned
C23_BaseUrlPathSorted ==
    /\ ctx.pc = "returned" /\ ctx.formatted /\ ~ctx.specific /\ ctx.crawled
    /\ Len(ctx.handed) >= 2
    /\ ctx.handed[1].score > ctx.handed[2].score

(***************************************************************************)
(* C24: the politeness delay is never skipped: between any two consecutive *)
(* page fetches one crawl issues, in the discovery loop as well as in the  *)
(* worker-pool fetch pass, a delay step occurs.  The statement as claimed; *)
(* the tasks of the pool fetch with no delay between them.                 *)
(***************************************************************************)
C24_DelayBetweenFetches == ~pace.skipped

\* two tasks of the pool have issued their fetches with no delay in between
C24_PoolFetchesBackToBack ==
    /\ phase = "pool" /\ started >= 2 /\ pace.skipped /\ pace.last = "fetch"

\* the discovery loop fetched several pages, each fetch followed by the sleep
C24_DiscoveryLoopPaced ==
    /\ phase = "discover" /\ Cardinality(visited) >= 2
    /\ pace.last = "sleep" /\ ~pace.skipped

(***************************************************************************)
(* C26: the same-domain test treats a leading "www." as equivalent in both *)
(* directions: _is_valid_url accepts the link if and only if the base host *)
(* and the link host are equal after a leading "www." is removed from      *)
(* each.  The statement as claimed; the test adds "www." to the base host  *)
(* only.                                                                   *)
(***************************************************************************)
C26_WwwEquivalentBothWays ==
    hv.done => (hv.valid <=> StripWww(hv.link) = StripWww(hv.base))

\* base www.x.com, link x.com: rejected
C26_BareLinkRejected ==
    /\ hv.base = <<"www", "x", "com">> /\ hv.link = <<"x", "com">>
    /\ hv.done /\ ~hv.valid

\* base x.com, link www.x.com: accepted
C26_WwwLinkAccepted ==
    /\ hv.base = <<"x", "com">> /\ hv.link = <<"www", "x", "com">>
    /\ hv.done /\ hv.valid

\* base www.x.com, link www.www.x.com: accepted
C26_DoubleWwwAccepted ==
    /\ hv.base = <<"www", "x">> /\ hv.link = <<"www", "www", "x">>
    /\ hv.done /\ hv.valid

(***************************************************************************)
(* C27: the relevance score weights keyword occurrences by content zone in *)
(* the order title > steps > headings > lists > paragraphs: for a fixed    *)
(* non-empty query, one occurrence of a query term in a higher-weighted    *)
(* zone adds strictly more to the score than one occurrence of the same    *)
(* term in a lower-weighted zone.  The statement as claimed; the weights   *)
(* of lines 221-227 are never used.                                        *)
(***************************************************************************)
\* page c with the word w as one more element of a zone; the title is a field
\* of the record beside structured_content (line 171), not part of c
ZoneAdd(c, w, zone) ==
    CASE zone = "steps" -> [c EXCEPT !.steps = Append(@, w)]
      [] zone = "headings" ->
            [c EXCEPT !.headings = Append(@, [level |-> 1, order |-> 0, text |-> w])]
      [] zone = "lists" ->
            [c EXCEPT !.lists = Append(@, [type |-> "unordered", items |-> <<w>>])]
      [] zone = "paragraphs" -> [c EXCEPT !.paragraphs = Append(@, w)]
      [] zone = "title" -> c

\* what the occurrence adds to the score
ZoneGain(c, q, w, zone) ==
    CalculateRelevance(ZoneAdd(c, w, zone), q) - CalculateRelevance(c, q)

C27_HigherZoneContributesMore ==
    (score # NotScored /\ adds.n = 0 /\ ~IsEmptyQuery(query)) =>
        \A w \in QueryWords(query) :
            /\ ZoneGain(content, query, w, "title") > ZoneGain(content, query, w, "steps")
            /\ ZoneGain(content, query, w, "steps") > ZoneGain(content, query, w, "headings")
            /\ ZoneGain(content, query, w, "headings") > ZoneGain(content, query, w, "lists")
            /\ ZoneGain(content, query, w, "lists") > ZoneGain(content, query, w, "paragraphs")

\* an occurrence counts the same in the steps, the headings, the lists and the
\* paragraphs, and not at all in the title
C27_EveryZoneCountsTheSame ==
    (score # NotScored /\ adds.n = 0 /\ ~IsEmptyQuery(query)) =>
        \A w \in QueryWords(query) :
            /\ ZoneGain(content, query, w, "title") = 0
            /\ \A z \in {"steps", "headings", "lists"} :
                  ZoneGain(content, query, w, z)
                      = ZoneGain(content, query, w, "paragraphs")
            /\ ZoneGain(content, query, w, "paragraphs") >= 1

\* a scored page and a query with a word, where the five gains are 0, 1, 1, 1, 1
C27_FlatWeightsReached ==
    /\ score # NotScored /\ adds.n = 0 /\ query = T_ba
    /\ ZoneGain(content, query, T_ba, "title") = 0
    /\ ZoneGain(content, query, T_ba, "steps") = 1
    /\ ZoneGain(content, query, T_ba, "headings") = 1
    /\ ZoneGain(content, query, T_ba, "lists") = 1
    /\ ZoneGain(content, query, T_ba, "paragraphs") = 1

(***************************************************************************)
(* C28: when refreshing the whole-site snapshot fails, the case where      *)
(* every page fetch of the refresh scrape fails included,                  *)
(* get_website_content_for_session returns the previously cached snapshot, *)
(* expired or not (an empty list when nothing was cached), and leaves the  *)
(* snapshot and its timestamp unchanged.  The statement as claimed; a      *)
(* scrape whose fetches all fail returns an empty list, which is stored.   *)
(***************************************************************************)
C28_FailedRefreshKeepsSnapshot ==
    \A t \in Threads :
        (wc.th[t].pc = "done" /\ wc.th[t].op = "get"
         /\ wc.th[t].outcome \in {"raised", "all_failed"}) =>
            /\ wc.th[t].ret = IF wc.th[t].prev.global_cache.some
                              THEN wc.th[t].prev.global_cache ELSE ListOf(<<>>)
            /\ wc.th[t].after = wc.th[t].prev

\* every fetch of the refresh failed: the expired snapshot of one page was
\* replaced by the empty list, stamped anew, and the empty list was returned
C28_EmptyScrapeReplacesSnapshot ==
    \E t \in Threads :
        /\ wc.th[t].pc = "done" /\ wc.th[t].outcome = "all_failed"
        /\ wc.th[t].prev.global_cache = ListOf(<<1>>)
        /\ wc.th[t].ret = ListOf(<<>>)
        /\ wc.th[t].after.global_cache = ListOf(<<>>)
        /\ wc.th[t].after.global_cache_timestamp > wc.th[t].prev.global_cache_timestamp

\* when scrape_everest_website raises, the snapshot is returned and kept
C28_RaisedRefreshKeepsSnapshot ==
    \A t \in Threads :
        (wc.th[t].pc = "done" /\ wc.th[t].outcome = "raised") =>
            /\ wc.th[t].ret = IF wc.th[t].prev.global_cache.some
                              THEN wc.th[t].prev.global_cache ELSE ListOf(<<>>)
            /\ wc.th[t].after = wc.th[t].prev

\* the scrape raised and the expired snapshot was returned
C28_ExpiredSnapshotReturned ==
    \E t \in Threads :
        /\ wc.th[t].pc = "done" /\ wc.th[t].outcome = "raised"
        /\ wc.th[t].ret = ListOf(<<1>>) /\ ~wc.th[t].fresh

(***************************************************************************)
(* C29: under every interleaving of concurrent                             *)
(* get_website_content_for_session, invalidate_cache and get_cache_stats   *)
(* calls on one WebsiteCache, at most one site scrape is in progress at    *)
(* any time, and a caller that was blocked while another caller's scrape   *)
(* stored a snapshot returns that snapshot without starting a second       *)
(* scrape, as long as the snapshot was not invalidated in between and is   *)
(* not expired when the caller checks it.                                  *)
(***************************************************************************)
C29_OneScrapeAndBlockedCallerReusesIt ==
    /\ Cardinality({t \in Threads : wc.th[t].pc = "scraping"}) <= 1
    /\ \A t \in Threads :
          (wc.th[t].op = "get" /\ wc.th[t].pc \in {"scraping", "done"}
           /\ wc.th[t].gift.set /\ wc.th[t].fresh) =>
              /\ ~wc.th[t].scraped
              /\ wc.th[t].pc = "done" /\ wc.th[t].ret = wc.th[t].gift.data

\* a caller that waited for the lock while the other thread scraped a page
\* has returned that snapshot without a scrape of its own
C29_Witness ==
    \E t \in Threads :
        /\ wc.th[t].op = "get" /\ wc.th[t].pc = "done"
        /\ wc.th[t].gift.set /\ wc.th[t].gift.data = ListOf(<<1>>)
        /\ ~wc.th[t].scraped /\ wc.th[t].ret = ListOf(<<1>>)

\* one thread is inside the scrape, the other waits at the with statement
C29_BlockedWhileScraping ==
    \E t, u \in Threads :
        /\ wc.th[t].pc = "scraping" /\ wc.lock = t
        /\ wc.th[u].pc = "wait" /\ wc.th[u].op = "get"

\* a caller that waited while a snapshot was stored found it expired and
\* scraped again
C29_ExpiredSnapshotScrapedAgain ==
    \E t \in Threads :
        /\ wc.th[t].op = "get" /\ wc.th[t].gift.set /\ wc.th[t].scraped
        /\ ~wc.th[t].fresh

(***************************************************************************)
(* C30: for every max_pages p >= 0, the list scrape_for_query returns      *)
(* holds at most p records (and at most 10), no two of them with the same  *)
(* URL, and every record is the result of a successful fetch; at most 3    *)
(* fetch+extract tasks of the final pass are in flight at any time.        *)
(***************************************************************************)
C30_ResultBoundedDistinctAndFetched ==
    /\ Cardinality(running) <= MaxWorkers
    /\ Len(relevant_urls) <= MaxRelevant
    /\ phase = "done" =>
          /\ Len(result) <= max_pages /\ Len(result) <= MaxRelevant
          /\ \A i, j \in 1..Len(result) : i # j => result[i].url # result[j].url
          /\ \A i \in 1..Len(result) :
                /\ result[i].url \notin dropped
                /\ result[i].url \in SeqRange(relevant_urls)
                /\ result[i].url \in visited \ failed

\* more relevant URLs than max_pages were found, a task failed, and the list
\* returned holds max_pages - 1 records
C30_Witness ==
    /\ phase = "done" /\ max_pages >= 2
    /\ Len(relevant_urls) > max_pages
    /\ Cardinality(dropped) = 1
    /\ Len(result) = max_pages - 1

\* three tasks are in flight and a fourth waits for a worker
C30_PoolFull ==
    /\ phase = "pool" /\ Cardinality(running) = MaxWorkers
    /\ started < Len(Tasks(relevant_urls, max_pages))

====
